---- MODULE Spec2Model ----
(***************************************************************************)
(* STIG audit jobs of NetNynjaEnterprise: the AuditJob life cycle          *)
(* (services/audit.py, api/routes.py, db/repository.py) and the rule       *)
(* source resolution of the configuration checker                         *)
(* (services/config_checker.py).                                           *)
(*                                                                         *)
(* Every `await` of a coroutine is a point where another coroutine or      *)
(* another request may run, so a handler is split into one action per      *)
(* database round trip; steps that run without an await in between are     *)
(* one action.                                                             *)
(***************************************************************************)
EXTENDS Integers, Sequences, FiniteSets, TLC

\* ------------------------------------------------------------------ bounds
MaxJobs == 1
MaxDbRules == 2
MaxXccdfRules == 2
MaxErrAt == 2
MaxGroups == 2
MaxCount == 2
MaxKeywords == 2
MaxLines == 3
MaxSshRules == 2
default_ssh_timeout == 2
MaxCallers == 2
buffer_size == 2
MaxReceivers == 3
batch_size == 2
SYSLOG_MAX_BUFFER_SIZE == 3

Jobs == 1..MaxJobs

\* The tasks that share a buffer: the periodic flush task and the callers.
Flusher == 0
NoTask == -1
FwdCallers == 1..MaxCallers
FwdTasks == FwdCallers \cup {Flusher}
Receivers == 1..MaxReceivers
ColTasks == Receivers \cup {Flusher}

\* --------------------------------------------------------------- constants
NULL == "null"

PENDING == "pending"
RUNNING == "running"
COMPLETED == "completed"
FAILED == "failed"
CANCELLED == "cancelled"
ABSENT == "absent"

AuditStatus == {PENDING, RUNNING, COMPLETED, FAILED, CANCELLED}
Terminal == {COMPLETED, FAILED, CANCELLED}

CheckStatus == {"pass", "fail", "not_applicable", "not_reviewed", "error"}
Severities == {"high", "medium", "low"}

SubmitError == "Failed to submit"
NotFoundError == "Target or definition not found"
\* str(e) of an exception raised inside the try block; an exception built
\* without arguments (a timeout) has the empty message.
ExcMsgs == {"db error", ""}
ErrorMessages == {NULL, SubmitError, NotFoundError} \cup ExcMsgs

\* --------------------------------------------------------------- variables
VARIABLES
  js,            \* AuditService._js is set (JetStream context obtained)
  natsUp,        \* the NATS server accepts a publish right now
  jobs,          \* stig.audit_jobs: job id -> row
  results,       \* stig.audit_results: job id -> rows of that job
  kind,          \* how the job was created: "none", "async", "upload"
  pc,            \* position of the handler / task that owns the job
  toWrite,       \* the task's local list of AuditResultCreate
  excMsg,        \* str(e) of the exception the task has caught
  cancelPc,      \* position of the cancel_audit call on the job
  cancelSeen,    \* job.status as read by that cancel_audit call
  cancelReply,   \* last answer of cancel_audit: "none", "cancelled", "not_cancellable"
  everCancelled, \* history: some cancel_audit call on the job returned True
  mqDown,        \* history: the server was unreachable when the job was handed off
  inProcess,     \* history: asyncio.create_task(_run_audit_sync) was called
  hasRules,      \* the rule list the job's run loaded was not empty
  targetPlatform, \* target.platform as analyze_target_config read it
  rPc,           \* position of the get_compliance_summary call
  rJob,          \* the job that call is about
  rCounts,       \* status_counts it got from get_summary
  rBreak,        \* what it got from get_severity_breakdown
  evalIn,        \* resolver: the inputs of the last analyze_config call
  evalRules,     \* resolver: the rules that call evaluated, with provenance
  xccdf_rules_cache, \* ConfigComplianceChecker._xccdf_rules_cache
  library,       \* rules the library indexer holds per benchmark id
  lookupOut,     \* cache: the last _get_xccdf_rules call and what it returned
  ruleIn,        \* evaluator: the rule list and check outcomes of the last call
  ruleOut,       \* evaluator: what that call gave back
  xIn,           \* XCCDF parser: the archive or document of the last call
  xOut,          \* XCCDF parser: what that call gave back
  target,        \* stig.targets: the row of the one target (exists, is_active)
  definitions,   \* stig.definitions: the ids that exist
  enabled,       \* stig.target_definitions: definitions assigned and enabled
  groupExists,   \* stig.audit_groups: the row of the one group exists
  groupOf,       \* stig.audit_jobs.audit_group_id is the group, per job
  gPc,           \* position of the start_audit_all call
  gFrozen,       \* the assignments that call listed
  gList,         \* the assignments its loop has still to start
  startOut,      \* the last request that starts one audit and its outcome
  sPc,           \* position of the get_audit_group_summary call
  sJobs,         \* job statuses as its get_jobs read them
  sList,         \* the jobs its loop has still to look at
  sTotals,       \* the totals it has summed
  scoreIn,       \* score: the status counts of the last summary computed
  scoreOut,      \* score: that summary
  sniffIn,       \* heuristic check: the rule of the last evaluation
  sniffOut,      \* heuristic check: the branch that evaluation took
  junosIn,       \* JunOS parser: the lines of the last configuration parsed
  junosOut,      \* JunOS parser: what parse() gave back
  sshPc,         \* SSH audit: position of the audit_target call
  sshRules,      \* SSH audit: per rule, whether it has a check command
  sshIdx,        \* SSH audit: the rule the loop is at
  sshCreds,      \* SSH audit: Vault holds usable credentials for the target
  sshConn,       \* SSH audit: target.id is in SSHAuditor._connections
  sshClock,      \* SSH audit: seconds the pending connect has waited
  sshResults,    \* SSH audit: the results list of audit_target
  fwdPc,         \* forwarder: position of each task that uses the buffer
  buffer,        \* forwarder: len(self.buffer)
  buffer_lock,   \* forwarder: the task that holds self.buffer_lock
  fwdMessages,   \* forwarder: len(messages) still to send, per flushing task
  colPc,         \* collector: position of each task that uses the buffer
  event_buffer,  \* collector: len(self.event_buffer)
  event_buffer_lock, \* collector: the task that holds self.buffer_lock
  colEvents,     \* collector: len(events) taken by the flush of each task
  db_pool        \* collector: self.db_pool is set

jobVars == <<js, natsUp, jobs, results,
             kind, pc, toWrite, excMsg, cancelPc, cancelSeen, cancelReply,
             everCancelled, mqDown, inProcess, hasRules, targetPlatform,
             rPc, rJob, rCounts, rBreak>>
resolveVars == <<evalIn, evalRules, xccdf_rules_cache, library>>
evalVars == <<ruleIn, ruleOut>>
parserVars == <<xIn, xOut>>
batchVars == <<target, definitions, enabled, groupExists, groupOf,
               gPc, gFrozen, gList, startOut>>
groupReadVars == <<sPc, sJobs, sList, sTotals>>
scoreVars == <<scoreIn, scoreOut>>
sniffVars == <<sniffIn, sniffOut>>
junosVars == <<junosIn, junosOut>>
sshVars == <<sshPc, sshRules, sshIdx, sshCreds, sshConn, sshClock, sshResults>>
fwdVars == <<fwdPc, buffer, buffer_lock, fwdMessages>>
colVars == <<colPc, event_buffer, event_buffer_lock, colEvents, db_pool>>
liveVars == <<sshVars, fwdVars, colVars>>
extVars == <<batchVars, groupReadVars, scoreVars, sniffVars, junosVars,
             liveVars>>
otherVars == <<resolveVars, lookupOut, evalVars, parserVars, extVars>>
vars == <<jobVars, otherVars>>

\* ------------------------------------------------------------- repository
\* AuditJobRepository.create: INSERT with the column defaults.
NewJobRow == [status |-> PENDING, started_at |-> FALSE,
              completed_at |-> FALSE, error_message |-> NULL]

AbsentRow == [status |-> ABSENT, started_at |-> FALSE,
              completed_at |-> FALSE, error_message |-> NULL]

\* A terminal update that keeps the stored error_message when none is passed.
update_status_keep_error(row, status, error_message) ==
  IF status = RUNNING
    THEN [row EXCEPT !.status = status, !.started_at = TRUE]
    ELSE IF status \in Terminal
      THEN [row EXCEPT !.status = status, !.completed_at = TRUE,
                       !.error_message = IF error_message = NULL
                                          THEN row.error_message
                                          ELSE error_message]
      ELSE [row EXCEPT !.status = status]

\* AuditJobRepository.update_status: an unconditional UPDATE ... WHERE id = $1.
update_status(row, status, error_message) ==
  IF status = RUNNING
    THEN [row EXCEPT !.status = status, !.started_at = TRUE]
    ELSE IF status \in Terminal
      THEN [row EXCEPT !.status = status, !.completed_at = TRUE,
                       !.error_message = error_message]
      ELSE [row EXCEPT !.status = status]

\* An insert that stops after the first row.
executemany_first_row(rows, values) ==
  IF values = <<>> THEN rows ELSE Append(rows, Head(values))

\* conn.executemany outside an explicit transaction: asyncpg runs the whole
\* batch in one implicit transaction, so the rows appear together.
executemany(rows, values) == rows \o values

\* AuditResultRepository.bulk_create
bulk_create(rows, values) ==
  IF values = <<>> THEN rows ELSE executemany(rows, values)

\* sum(f[x] for x in S)
RECURSIVE SumOver(_, _)
SumOver(S, f) ==
  IF S = {} THEN 0
  ELSE LET j == CHOOSE x \in S : TRUE IN f[j] + SumOver(S \ {j}, f)

CountStatus(rows, st) == Cardinality({i \in DOMAIN rows : rows[i].status = st})

\* AuditResultRepository.get_summary: SELECT status, COUNT(*) ... GROUP BY status
\* (a status without rows reads as 0 through dict.get(status, 0)).
get_summary(rows) == [st \in CheckStatus |-> CountStatus(rows, st)]

\* AuditResultRepository.get_severity_breakdown
get_severity_breakdown(rows) ==
  [sev \in Severities |->
     [passed |-> Cardinality({i \in DOMAIN rows :
                    rows[i].severity = sev /\ rows[i].status = "pass"}),
      failed |-> Cardinality({i \in DOMAIN rows :
                    rows[i].severity = sev /\ rows[i].status = "fail"})]]

\* The three demo rows _run_audit_sync writes when the definition has no rules.
sample_results ==
  << [rule_id |-> "SV-230221r858697_rule", severity |-> "high", status |-> "pass"],
     [rule_id |-> "SV-230222r627750_rule", severity |-> "medium", status |-> "fail"],
     [rule_id |-> "SV-230223r627750_rule", severity |-> "low", status |-> "pass"] >>


\* ------------------------------------------------- configuration checker
ARISTA_CHECKS ==
  << [rule_id |-> "ARST-L2-000010", severity |-> "high"],
     [rule_id |-> "ARST-L2-000020", severity |-> "high"],
     [rule_id |-> "ARST-L2-000030", severity |-> "medium"],
     [rule_id |-> "ARST-L2-000040", severity |-> "medium"],
     [rule_id |-> "ARST-L2-000050", severity |-> "medium"],
     [rule_id |-> "ARST-L2-000060", severity |-> "low"],
     [rule_id |-> "ARST-ND-000010", severity |-> "medium"],
     [rule_id |-> "ARST-ND-000020", severity |-> "medium"],
     [rule_id |-> "ARST-ND-000030", severity |-> "medium"],
     [rule_id |-> "ARST-ND-000040", severity |-> "medium"] >>

HPE_ARUBA_CX_CHECKS ==
  << [rule_id |-> "ARBA-CX-000010", severity |-> "high"],
     [rule_id |-> "ARBA-CX-000020", severity |-> "high"],
     [rule_id |-> "ARBA-CX-000030", severity |-> "medium"],
     [rule_id |-> "ARBA-CX-000040", severity |-> "medium"],
     [rule_id |-> "ARBA-CX-000050", severity |-> "medium"],
     [rule_id |-> "ARBA-CX-000060", severity |-> "medium"],
     [rule_id |-> "ARBA-CX-000070", severity |-> "low"] >>

JUNIPER_CHECKS ==
  << [rule_id |-> "JUSX-AG-000010", severity |-> "medium"],
     [rule_id |-> "JUSX-AG-000020", severity |-> "high"],
     [rule_id |-> "JUSX-AG-000030", severity |-> "high"],
     [rule_id |-> "JUSX-AG-000040", severity |-> "medium"],
     [rule_id |-> "JUSX-AG-000050", severity |-> "medium"],
     [rule_id |-> "JUSX-AG-000060", severity |-> "high"] >>

PFSENSE_CHECKS ==
  << [rule_id |-> "PFSS-FW-000010", severity |-> "high"],
     [rule_id |-> "PFSS-FW-000020", severity |-> "high"],
     [rule_id |-> "PFSS-FW-000030", severity |-> "medium"],
     [rule_id |-> "PFSS-FW-000040", severity |-> "medium"],
     [rule_id |-> "PFSS-FW-000050", severity |-> "medium"] >>

MELLANOX_CHECKS ==
  << [rule_id |-> "MLNX-SW-000010", severity |-> "high"],
     [rule_id |-> "MLNX-SW-000020", severity |-> "high"],
     [rule_id |-> "MLNX-SW-000030", severity |-> "medium"],
     [rule_id |-> "MLNX-SW-000040", severity |-> "medium"] >>

REDHAT_CHECKS ==
  << [rule_id |-> "RHEL-09-211010", severity |-> "high"],
     [rule_id |-> "RHEL-09-211015", severity |-> "high"],
     [rule_id |-> "RHEL-09-212010", severity |-> "high"],
     [rule_id |-> "RHEL-09-411010", severity |-> "medium"],
     [rule_id |-> "RHEL-09-411015", severity |-> "medium"],
     [rule_id |-> "RHEL-09-255010", severity |-> "high"],
     [rule_id |-> "RHEL-09-255015", severity |-> "high"],
     [rule_id |-> "RHEL-09-255020", severity |-> "medium"] >>

\* The platforms the registries name; OTHER is any Platform member that
\* neither registry has an entry for.
JuniperPlatforms == {"JUNIPER_JUNOS", "JUNIPER_SRX"}
ParserPlatforms == {"ARISTA_EOS", "HPE_ARUBA_CX", "JUNIPER_JUNOS", "JUNIPER_SRX",
                    "MELLANOX", "PFSENSE", "REDHAT", "LINUX"}
Platforms == ParserPlatforms \cup {"OTHER"}

\* PLATFORM_CHECKS.get(platform, [])
PLATFORM_CHECKS(platform) ==
  CASE platform = "ARISTA_EOS" -> ARISTA_CHECKS
    [] platform = "HPE_ARUBA_CX" -> HPE_ARUBA_CX_CHECKS
    [] platform \in JuniperPlatforms -> JUNIPER_CHECKS
    [] platform = "PFSENSE" -> PFSENSE_CHECKS
    [] platform = "MELLANOX" -> MELLANOX_CHECKS
    [] platform \in {"REDHAT", "LINUX"} -> REDHAT_CHECKS
    [] OTHER -> <<>>

\* get_parser(platform) returns a parser
get_parser(platform) == platform \in ParserPlatforms

\* Rows of stig.definition_rules as get_rules returns them (vuln_id is the
\* row's rule_id). rule_id is free text in that table: the first row carries
\* the id of a built-in Mellanox check.
DbRulePool == << [rule_id |-> "MLNX-SW-000010", vuln_id |-> "MLNX-SW-000010",
                  severity |-> "high"],
                 [rule_id |-> "V-000001", vuln_id |-> "V-000001",
                  severity |-> "high"],
                 [rule_id |-> "V-000002", vuln_id |-> "V-000002",
                  severity |-> "medium"],
                 [rule_id |-> "V-000003", vuln_id |-> "V-000003",
                  severity |-> "low"] >>

\* XCCDFRule objects of the library in document order, as
\* XCCDFParser._extract_rules builds them: vuln_id is the id attribute of
\* the Group, "" when the Group has none.
XccdfRulePool == << [rule_id |-> "SV-100000r1_rule", vuln_id |-> "",
                     severity |-> "medium"],
                    [rule_id |-> "SV-100001r1_rule", vuln_id |-> "V-100001",
                     severity |-> "high"],
                    [rule_id |-> "SV-100002r1_rule", vuln_id |-> "V-100002",
                     severity |-> "low"],
                    [rule_id |-> "SV-100003r1_rule", vuln_id |-> "V-100003",
                     severity |-> "medium"] >>

SubLists(pool, n) ==
  { SelectSeq(SubSeq(pool, 1, n), LAMBDA r : r \in S) :
      S \in SUBSET { pool[i] : i \in 1..n } }

\* DefinitionRepository.get_rules: the rows of one definition, ORDER BY rule_id
DbRuleLists == SubLists(DbRulePool, MaxDbRules)
XccdfRuleLists == SubLists(XccdfRulePool, MaxXccdfRules)

BenchmarkIds == {"bm-a", "bm-b"}
EmptyCache == [b \in BenchmarkIds |-> <<>>]
NoLibrary == [ready |-> FALSE, rules |-> [b \in BenchmarkIds |-> <<>>]]

Tag(rules, source) ==
  [i \in DOMAIN rules |-> [rule_id |-> rules[i].rule_id,
                           severity |-> rules[i].severity,
                           source |-> source]]

\* _get_xccdf_rules: only non-empty lists are ever stored in the cache, so
\* "benchmark_id in cache" is the entry being non-empty.
get_xccdf_rules(cache, lib, benchmark_id) ==
  IF cache[benchmark_id] # <<>>
    THEN [rules |-> cache[benchmark_id], cache |-> cache]
    ELSE IF ~lib.ready
      THEN [rules |-> <<>>, cache |-> cache]
      ELSE LET rules == lib.rules[benchmark_id]
           IN [rules |-> rules,
               cache |-> IF rules # <<>>
                           THEN [cache EXCEPT ![benchmark_id] = rules]
                           ELSE cache]

\* The "Fallback: Try XCCDF rules" block: benchmark_id, else
\* definition.stig_id, else no lookup (key = NULL).
xccdf_fallback(cache, lib, key) ==
  IF key = NULL THEN [rules |-> <<>>, cache |-> cache]
                ELSE get_xccdf_rules(cache, lib, key)

\* _analyze_juniper_config up to the call of the analyzer: rules_to_check
juniper_rules_to_check(platform, db_rules, xccdf) ==
  IF db_rules # <<>> THEN Tag(db_rules, "db")
  ELSE IF xccdf # <<>> THEN Tag(xccdf, "xccdf")
  ELSE Tag(PLATFORM_CHECKS(platform), "builtin")

\* analyze_config, the generic path: built-in checks first, then database
\* rules if there are any, else the XCCDF rules.
generic_rules_to_check(platform, db_rules, xccdf) ==
  Tag(PLATFORM_CHECKS(platform), "builtin")
    \o (IF db_rules # <<>> THEN Tag(db_rules, "db") ELSE Tag(xccdf, "xccdf"))

\* What the body of a check decides from the configuration text; it is an
\* input here, with the position errAt of the rule whose body raises
\* (0: none does).
CheckVerdicts == {"pass", "fail", "not_reviewed"}
CheckErrorText == "Error evaluating rule: key error"

\* AuditResultBase.rule_id: Field(min_length=1, max_length=100); the
\* constructor raises ValidationError otherwise.
ValidRuleId(rule_id) == rule_id # ""

\* try: <the checks> except Exception as e: status = ERROR,
\* finding_details = f"Error ...: {str(e)}"
TryCheck(verdict, raises) ==
  [status |-> IF raises THEN "error" ELSE verdict,
   finding_details |-> IF raises THEN CheckErrorText ELSE ""]

\* AuditResultCreate(job_id, rule_id, title, severity, status, finding_details)
\* after the try block: raised is TRUE when the constructor raises.
AuditResultCreate(rule_id, severity, outcome) ==
  [raised |-> ~ValidRuleId(rule_id),
   result |-> [rule_id |-> rule_id, severity |-> severity,
               status |-> outcome.status,
               finding_details |-> outcome.finding_details]]

\* _run_check(check, config, job_id)
run_check(check, verdict, raises) ==
  AuditResultCreate(check.rule_id, check.severity, TryCheck(verdict, raises))

\* _evaluate_single_db_rule(rule, config, job_id)
evaluate_single_db_rule(rule, verdict, raises) ==
  AuditResultCreate(rule.vuln_id, rule.severity, TryCheck(verdict, raises))

\* _evaluate_single_xccdf_rule(rule, config, job_id)
evaluate_single_xccdf_rule(rule, verdict, raises) ==
  AuditResultCreate(rule.vuln_id, rule.severity, TryCheck(verdict, raises))

\* for rule in rules: results.append(<single evaluation>); return results.
\* An exception that leaves a single evaluation ends the loop: the caller
\* gets the exception and no list; evaluated counts the rules done before.
EvalLoop(singles) ==
  LET bad == {i \in DOMAIN singles : singles[i].raised}
  IN IF bad = {}
       THEN [raised |-> FALSE,
             results |-> [i \in DOMAIN singles |-> singles[i].result],
             evaluated |-> Len(singles)]
       ELSE [raised |-> TRUE,
             results |-> <<>>,
             evaluated |-> (CHOOSE i \in bad : \A k \in bad : i <= k) - 1]

\* analyze_config, "Run built-in checks first"
run_checks(checks, verdict, errAt) ==
  EvalLoop([i \in DOMAIN checks |-> run_check(checks[i], verdict, i = errAt)])

\* _evaluate_db_rules(rules, config, job_id)
evaluate_db_rules(rules, verdict, errAt) ==
  EvalLoop([i \in DOMAIN rules |->
              evaluate_single_db_rule(rules[i], verdict, i = errAt)])

\* _evaluate_xccdf_rules(rules, config, job_id)
evaluate_xccdf_rules(rules, verdict, errAt) ==
  EvalLoop([i \in DOMAIN rules |->
              evaluate_single_xccdf_rule(rules[i], verdict, i = errAt)])

\* analyze_juniper_config(content, rules_to_check, job_id): one result per
\* rule dict handed over.
analyze_juniper_config(rules, verdict) ==
  [i \in DOMAIN rules |-> [rule_id |-> rules[i].rule_id,
                           severity |-> rules[i].severity,
                           status |-> verdict,
                           finding_details |-> ""]]

\* An unsupported platform answered with an empty list.
ParseErrorResult_empty == <<>>

ParseErrorResult ==
  << [rule_id |-> "CONFIG-PARSE-ERROR", severity |-> "high", status |-> "error",
      finding_details |-> "Configuration analysis is not supported"] >>
AnalysisErrorResult ==
  << [rule_id |-> "CONFIG-ANALYSIS-ERROR", severity |-> "high", status |-> "error",
      finding_details |-> "Error during analysis"] >>

\* analyze_config(content, platform, definition, job_id, benchmark_id, db_rules):
\* parses is FALSE when parser.parse (or the Juniper analyzer) raises; errAt
\* counts through the built-in checks and then the database or XCCDF rules.
\* raised is TRUE when the call ends with an exception instead of a list.
analyze_config(platform, db_rules, key, parses, verdict, errAt, cache, lib) ==
  LET look == IF db_rules # <<>> THEN [rules |-> <<>>, cache |-> cache]
                                 ELSE xccdf_fallback(cache, lib, key)
  IN IF platform \in JuniperPlatforms
       THEN LET rules == juniper_rules_to_check(platform, db_rules, look.rules)
            IN [evaluated |-> rules,
                raised |-> FALSE,
                results |-> IF parses THEN analyze_juniper_config(rules, verdict)
                                      ELSE AnalysisErrorResult,
                cache |-> look.cache]
     ELSE IF ~get_parser(platform) \/ ~parses
       THEN [evaluated |-> <<>>, raised |-> FALSE,
             results |-> ParseErrorResult, cache |-> cache]
     ELSE LET rules == generic_rules_to_check(platform, db_rules, look.rules)
              checks == PLATFORM_CHECKS(platform)
              builtin == run_checks(checks, verdict, errAt)
              rest == IF db_rules # <<>>
                        THEN evaluate_db_rules(db_rules, verdict,
                                               errAt - Len(checks))
                        ELSE evaluate_xccdf_rules(look.rules, verdict,
                                                  errAt - Len(checks))
          IN [evaluated |-> rules,
              raised |-> rest.raised,
              results |-> IF rest.raised THEN <<>>
                                         ELSE builtin.results \o rest.results,
              cache |-> look.cache]


\* ------------------------------------------------------ audit job machine
ZeroCounts == get_summary(<<>>)
ZeroBreakdown == get_severity_breakdown(<<>>)

\* What analyze_target_config can get back from analyze_config: the library
\* is not configured in this service instance, so no XCCDF rules are found.
UploadPlatforms == {"MELLANOX", "OTHER"}
UploadDbRules == {<<>>, SubSeq(DbRulePool, 1, MaxDbRules)}
UploadVerdicts == {"pass"}
UploadErrAt == {0}
\* str(e) of the ValidationError that leaves analyze_config
EvalError == "1 validation error for AuditResultCreate"

\* After startup: connect_nats has set _js only if the server was reachable.
JobInit ==
  /\ natsUp \in BOOLEAN
  /\ js \in BOOLEAN
  /\ js => natsUp
  /\ jobs = [j \in Jobs |-> AbsentRow]
  /\ results = [j \in Jobs |-> <<>>]
  /\ kind = [j \in Jobs |-> "none"]
  /\ pc = [j \in Jobs |-> "none"]
  /\ toWrite = [j \in Jobs |-> <<>>]
  /\ excMsg = [j \in Jobs |-> NULL]
  /\ cancelPc = [j \in Jobs |-> "idle"]
  /\ cancelSeen = [j \in Jobs |-> ABSENT]
  /\ cancelReply = [j \in Jobs |-> "none"]
  /\ everCancelled = [j \in Jobs |-> FALSE]
  /\ mqDown = [j \in Jobs |-> FALSE]
  /\ inProcess = [j \in Jobs |-> FALSE]
  /\ hasRules = [j \in Jobs |-> FALSE]
  /\ targetPlatform = [j \in Jobs |-> NULL]
  /\ rPc = "idle"
  /\ rJob = 1
  /\ rCounts = ZeroCounts
  /\ rBreak = ZeroBreakdown

ResolveIdle ==
  /\ evalIn = [platform |-> "OTHER", db_rules |-> <<>>, key |-> NULL,
               parses |-> FALSE]
  /\ evalRules = <<>>
  /\ xccdf_rules_cache = EmptyCache
  /\ library = NoLibrary

\* No call of the evaluator, the rule lookup or the XCCDF parser yet.
EvalIdle ==
  /\ ruleIn = [source |-> "none", rules |-> <<>>, verdict |-> "pass", errAt |-> 0]
  /\ ruleOut = [raised |-> FALSE, results |-> <<>>, evaluated |-> 0]

LookupIdle == lookupOut = [benchmark_id |-> NULL, rules |-> <<>>]

ParserIdle ==
  /\ xIn = [entry_point |-> "none", valid |-> TRUE, entries |-> 0,
            has_xccdf |-> FALSE, file_size |-> 0,
            doc |-> [xml |-> "wellformed", size |-> 0, benchmark_id |-> "",
                     groups |-> <<>>]]
  /\ xOut = [raised |-> FALSE, entry |-> [benchmark_id |-> NULL, rules_count |-> 0],
             rules |-> <<>>, log |-> <<>>]

\* No target, definition or group in the database and no request for one.
NoStart == [via |-> "none", definition |-> 0, error |-> NULL, created |-> 0]

BatchIdle ==
  /\ target = [exists |-> FALSE, is_active |-> FALSE]
  /\ definitions = {}
  /\ enabled = {}
  /\ groupExists = FALSE
  /\ groupOf = [j \in Jobs |-> FALSE]
  /\ gPc = "idle"
  /\ gFrozen = <<>>
  /\ gList = <<>>
  /\ startOut = NoStart

GroupReadIdle ==
  /\ sPc = "idle"
  /\ sJobs = [j \in Jobs |-> ABSENT]
  /\ sList = <<>>
  /\ sTotals = ZeroCounts

\* No summary computed yet.
ScoreIdle ==
  /\ scoreIn = [op |-> "none", counts |-> ZeroCounts]
  /\ scoreOut = [total_checks |-> 0, passed |-> 0, failed |-> 0,
                 compliance_score |-> 0]

\* No rule evaluated by keyword yet.
SniffIdle ==
  /\ sniffIn = [source |-> "none", text |-> {}, title |-> {}]
  /\ sniffOut = "none"

\* JuniperJunOSParser.parse at the top of its loop: empty path, an empty
\* ParsedConfig; paths lists current_path after every line read so far.
JunosStart ==
  [raised |-> FALSE, current_path |-> <<>>, hostname |-> NULL,
   ntp_servers |-> <<>>, paths |-> <<>>]

\* No configuration parsed yet.
JunosIdle ==
  /\ junosIn = <<>>
  /\ junosOut = JunosStart

\* No audit_target call yet, no cached connection.
SshIdle ==
  /\ sshPc = "idle"
  /\ sshRules = <<>>
  /\ sshIdx = 0
  /\ sshCreds = FALSE
  /\ sshConn = FALSE
  /\ sshClock = 0
  /\ sshResults = <<>>

\* SyslogForwarder.__init__: empty buffer, free lock, no task running.
FwdIdle ==
  /\ fwdPc = [t \in FwdTasks |-> "idle"]
  /\ buffer = 0
  /\ buffer_lock = NoTask
  /\ fwdMessages = [t \in FwdTasks |-> 0]

\* SyslogCollector.__init__: empty buffer, free lock, no pool.
ColIdle ==
  /\ colPc = [t \in ColTasks |-> "idle"]
  /\ event_buffer = 0
  /\ event_buffer_lock = NoTask
  /\ colEvents = [t \in ColTasks |-> 0]
  /\ db_pool = FALSE

LiveIdle == SshIdle /\ FwdIdle /\ ColIdle

ExtIdle ==
  /\ BatchIdle /\ GroupReadIdle /\ ScoreIdle /\ SniffIdle /\ JunosIdle
  /\ LiveIdle

Init == JobInit /\ ResolveIdle /\ LookupIdle /\ EvalIdle /\ ParserIdle /\ ExtIdle

\* The database hands out a fresh id: the lowest unused one here.
FreshId(j) ==
  /\ jobs[j].status = ABSENT
  /\ \A i \in Jobs : i < j => jobs[i].status # ABSENT

cancelVars == <<cancelPc, cancelSeen, cancelReply, everCancelled>>
runVars == <<hasRules, targetPlatform>>
readerVars == <<rPc, rJob, rCounts, rBreak>>
envVars == <<js, natsUp>>

\* start_audit up to AuditJobRepository.create: the target exists and is
\* active and the definition exists, else ValueError and no row.
start_audit(j) ==
  /\ FreshId(j)
  /\ jobs' = [jobs EXCEPT ![j] = NewJobRow]
  /\ kind' = [kind EXCEPT ![j] = "async"]
  /\ pc' = [pc EXCEPT ![j] = "submit"]
  /\ UNCHANGED <<envVars, results, toWrite, excMsg, cancelVars,
                 mqDown, inProcess, runVars, readerVars, otherVars>>

\* A hand-off that publishes whether or not a JetStream context exists.
handoff_always_publish(js_set, up) ==
  IF up THEN "published" ELSE "submit_failed"

\* start_audit, "Submit to NATS for processing": where the job goes next.
handoff(js_set, up) ==
  IF js_set THEN (IF up THEN "published" ELSE "submit_failed")
            ELSE "start"

\* start_audit from the hand-off to the return (the failed publish is
\* followed by one more await, the update to FAILED).
start_audit_handoff(j) ==
  /\ pc[j] = "submit"
  /\ pc' = [pc EXCEPT ![j] = handoff(js, natsUp)]
  /\ inProcess' = [inProcess EXCEPT ![j] = (pc'[j] = "start")]
  /\ mqDown' = [mqDown EXCEPT ![j] = ~natsUp]
  /\ UNCHANGED <<envVars, jobs, results, kind, toWrite, excMsg,
                 cancelVars, runVars, readerVars, otherVars>>

\* start_audit, except branch: update_status(job.id, FAILED, "Failed to submit: ...")
start_audit_submit_failed(j) ==
  /\ pc[j] = "submit_failed"
  /\ jobs' = [jobs EXCEPT ![j] = update_status(jobs[j], FAILED, SubmitError)]
  /\ pc' = [pc EXCEPT ![j] = "done"]
  /\ UNCHANGED <<envVars, results, kind, toWrite, excMsg,
                 cancelVars, mqDown, inProcess, runVars, readerVars, otherVars>>

\* analyze_target_config up to AuditJobRepository.create (target and
\* definition found, file accepted); platform is target.platform.
analyze_target_config(j, platform) ==
  /\ FreshId(j)
  /\ jobs' = [jobs EXCEPT ![j] = NewJobRow]
  /\ kind' = [kind EXCEPT ![j] = "upload"]
  /\ pc' = [pc EXCEPT ![j] = "start"]
  /\ targetPlatform' = [targetPlatform EXCEPT ![j] = platform]
  /\ UNCHANGED <<envVars, results, toWrite, excMsg, cancelVars,
                 mqDown, inProcess, hasRules, readerVars, otherVars>>

\* _run_audit_sync / analyze_target_config: update_status(job_id, RUNNING)
run_start(j) ==
  /\ pc[j] = "start"
  /\ jobs' = [jobs EXCEPT ![j] = update_status(jobs[j], RUNNING, NULL)]
  /\ pc' = [pc EXCEPT ![j] = "load"]
  /\ UNCHANGED <<envVars, results, kind, toWrite, excMsg,
                 cancelVars, mqDown, inProcess, runVars, readerVars, otherVars>>

\* _run_audit_sync: re-read job, target and definition (another request may
\* have deleted target or definition since start_audit; job rows are never
\* deleted by the service), pick the rules of the definition;
\* the demo rows are prepared only when the definition has no rules.
run_audit_load(j) ==
  /\ pc[j] = "load"
  /\ kind[j] = "async"
  /\ \E found \in BOOLEAN, has_rules \in BOOLEAN :
       /\ IF ~found
            THEN /\ pc' = [pc EXCEPT ![j] = "notfound"]
                 /\ UNCHANGED toWrite
            ELSE /\ toWrite' = [toWrite EXCEPT ![j] =
                                  IF has_rules THEN <<>> ELSE sample_results]
                 /\ pc' = [pc EXCEPT ![j] =
                             IF has_rules THEN "last_audit" ELSE "write"]
       /\ hasRules' = [hasRules EXCEPT ![j] = found /\ has_rules]
  /\ UNCHANGED <<envVars, jobs, results, kind, excMsg, cancelVars,
                 mqDown, inProcess, targetPlatform, readerVars, otherVars>>

\* analyze_target_config: get_rules, analyze_config, "if results:"
upload_analyze(j) ==
  /\ pc[j] = "load"
  /\ kind[j] = "upload"
  /\ \E db_rules \in UploadDbRules, parses \in BOOLEAN,
        verdict \in UploadVerdicts, errAt \in UploadErrAt :
       LET a == analyze_config(targetPlatform[j], db_rules, NULL, parses,
                               verdict, errAt, xccdf_rules_cache, library)
       IN /\ hasRules' = [hasRules EXCEPT ![j] = db_rules # <<>>]
          /\ IF a.raised
               THEN /\ excMsg' = [excMsg EXCEPT ![j] = EvalError]
                    /\ pc' = [pc EXCEPT ![j] = "fail"]
                    /\ UNCHANGED toWrite
               ELSE /\ toWrite' = [toWrite EXCEPT ![j] = a.results]
                    /\ pc' = [pc EXCEPT ![j] =
                                IF a.results # <<>> THEN "write"
                                                    ELSE "last_audit"]
                    /\ UNCHANGED excMsg
  /\ UNCHANGED <<envVars, jobs, results, kind, cancelVars,
                 mqDown, inProcess, targetPlatform, readerVars, otherVars>>

\* _run_audit_sync: update_status(job_id, FAILED, "Target or definition not found")
run_not_found(j) ==
  /\ pc[j] = "notfound"
  /\ jobs' = [jobs EXCEPT ![j] = update_status(jobs[j], FAILED, NotFoundError)]
  /\ pc' = [pc EXCEPT ![j] = "done"]
  /\ UNCHANGED <<envVars, results, kind, toWrite, excMsg,
                 cancelVars, mqDown, inProcess, runVars, readerVars, otherVars>>

\* AuditResultRepository.bulk_create(results)
run_write(j) ==
  /\ pc[j] = "write"
  /\ results' = [results EXCEPT ![j] = bulk_create(results[j], toWrite[j])]
  /\ pc' = [pc EXCEPT ![j] = "last_audit"]
  /\ UNCHANGED <<envVars, jobs, kind, toWrite, excMsg,
                 cancelVars, mqDown, inProcess, runVars, readerVars, otherVars>>

\* TargetRepository.update_last_audit(target.id)
run_last_audit(j) ==
  /\ pc[j] = "last_audit"
  /\ pc' = [pc EXCEPT ![j] = "complete"]
  /\ UNCHANGED <<envVars, jobs, results, kind, toWrite, excMsg,
                 cancelVars, mqDown, inProcess, runVars, readerVars, otherVars>>

\* update_status(job_id, COMPLETED); analyze_target_config goes on, still
\* inside its try block, to read the summary for the response.
run_complete(j) ==
  /\ pc[j] = "complete"
  /\ jobs' = [jobs EXCEPT ![j] = update_status(jobs[j], COMPLETED, NULL)]
  /\ pc' = [pc EXCEPT ![j] = IF kind[j] = "upload" THEN "summary" ELSE "done"]
  /\ UNCHANGED <<envVars, results, kind, toWrite, excMsg,
                 cancelVars, mqDown, inProcess, runVars, readerVars, otherVars>>

\* analyze_target_config: summary = await get_compliance_summary(job.id),
\* then the response.
upload_summary(j) ==
  /\ pc[j] = "summary"
  /\ pc' = [pc EXCEPT ![j] = "done"]
  /\ UNCHANGED <<envVars, jobs, results, kind, toWrite, excMsg,
                 cancelVars, mqDown, inProcess, runVars, readerVars, otherVars>>

\* A database call inside the try block raises instead of taking effect.
run_raise(j) ==
  /\ pc[j] \in {"start", "load", "write", "last_audit", "complete", "summary"}
  /\ \E m \in ExcMsgs : excMsg' = [excMsg EXCEPT ![j] = m]
  /\ pc' = [pc EXCEPT ![j] = "fail"]
  /\ UNCHANGED <<envVars, jobs, results, kind, toWrite,
                 cancelVars, mqDown, inProcess, runVars, readerVars, otherVars>>

\* An except branch that logs the error and leaves the row as it is.
run_fail_swallow(j) ==
  /\ pc[j] = "fail"
  /\ pc' = [pc EXCEPT ![j] = "done"]
  /\ excMsg' = [excMsg EXCEPT ![j] = NULL]
  /\ UNCHANGED <<envVars, jobs, results, kind, toWrite,
                 cancelVars, mqDown, inProcess, runVars, readerVars, otherVars>>

\* except Exception as e: update_status(job_id, FAILED, str(e))
run_fail(j) ==
  /\ pc[j] = "fail"
  /\ jobs' = [jobs EXCEPT ![j] = update_status(jobs[j], FAILED, excMsg[j])]
  /\ pc' = [pc EXCEPT ![j] = "done"]
  /\ excMsg' = [excMsg EXCEPT ![j] = NULL]
  /\ UNCHANGED <<envVars, results, kind, toWrite,
                 cancelVars, mqDown, inProcess, runVars, readerVars, otherVars>>

\* cancel_audit: job = get_by_id(job_id); a missing row answers False at once.
cancel_audit_read(j) ==
  /\ cancelPc[j] = "idle"
  /\ IF jobs[j].status = ABSENT
       THEN /\ cancelReply' = [cancelReply EXCEPT ![j] = "not_cancellable"]
            /\ UNCHANGED <<cancelPc, cancelSeen>>
       ELSE /\ cancelPc' = [cancelPc EXCEPT ![j] = "read"]
            /\ cancelSeen' = [cancelSeen EXCEPT ![j] = jobs[j].status]
            /\ cancelReply' = [cancelReply EXCEPT ![j] = "none"]
  /\ UNCHANGED <<envVars, jobs, results, kind, pc, toWrite, excMsg,
                 everCancelled, mqDown, inProcess, runVars, readerVars, otherVars>>

\* cancel_audit: the status test on the row read before, then
\* update_status(job_id, CANCELLED) and True, or False.
cancel_audit_finish(j) ==
  /\ cancelPc[j] = "read"
  /\ cancelPc' = [cancelPc EXCEPT ![j] = "idle"]
  /\ IF cancelSeen[j] \in {PENDING, RUNNING}
       THEN /\ jobs' = [jobs EXCEPT ![j] = update_status(jobs[j], CANCELLED, NULL)]
            /\ cancelReply' = [cancelReply EXCEPT ![j] = "cancelled"]
            /\ everCancelled' = [everCancelled EXCEPT ![j] = TRUE]
       ELSE /\ cancelReply' = [cancelReply EXCEPT ![j] = "not_cancellable"]
            /\ UNCHANGED <<jobs, everCancelled>>
  /\ cancelSeen' = [cancelSeen EXCEPT ![j] = ABSENT]
  /\ UNCHANGED <<envVars, results, kind, pc, toWrite, excMsg,
                 mqDown, inProcess, runVars, readerVars, otherVars>>

\* get_compliance_summary: job, target and definition are found.
summary_start(j) ==
  /\ rPc = "idle"
  /\ jobs[j].status # ABSENT
  /\ rPc' = "counts"
  /\ rJob' = j
  /\ rCounts' = ZeroCounts
  /\ rBreak' = ZeroBreakdown
  /\ UNCHANGED <<envVars, jobs, results, kind, pc, toWrite, excMsg,
                 cancelVars, mqDown, inProcess, runVars, otherVars>>

\* get_compliance_summary: status_counts = await get_summary(job_id)
summary_counts ==
  /\ rPc = "counts"
  /\ rCounts' = get_summary(results[rJob])
  /\ rPc' = "breakdown"
  /\ UNCHANGED <<envVars, jobs, results, kind, pc, toWrite, excMsg,
                 cancelVars, mqDown, inProcess, runVars, rJob, rBreak, otherVars>>

\* get_compliance_summary: severity_breakdown = await get_severity_breakdown(job_id)
summary_breakdown ==
  /\ rPc = "breakdown"
  /\ rBreak' = get_severity_breakdown(results[rJob])
  /\ rPc' = "idle"
  /\ UNCHANGED <<envVars, jobs, results, kind, pc, toWrite, excMsg,
                 cancelVars, mqDown, inProcess, runVars, rJob, rCounts, otherVars>>

\* The NATS server becomes unreachable after the service has connected.
broker_down ==
  /\ natsUp
  /\ natsUp' = FALSE
  /\ UNCHANGED <<js, jobs, results, kind, pc, toWrite, excMsg, cancelVars,
                 mqDown, inProcess, runVars, readerVars, otherVars>>

TaskStep(j) ==
  \/ start_audit_handoff(j)
  \/ start_audit_submit_failed(j)
  \/ run_start(j)
  \/ run_audit_load(j)
  \/ upload_analyze(j)
  \/ run_not_found(j)
  \/ run_write(j)
  \/ run_last_audit(j)
  \/ run_complete(j)
  \/ upload_summary(j)
  \/ run_fail(j)

\* The audit job life cycle with cancel requests. The cancel path never
\* looks at the platform: the uploads here are for a Mellanox target.
Next ==
  \/ \E j \in Jobs : start_audit(j)
  \/ \E j \in Jobs : analyze_target_config(j, "MELLANOX")
  \/ \E j \in Jobs : TaskStep(j)
  \/ \E j \in Jobs : run_raise(j)
  \/ \E j \in Jobs : cancel_audit_read(j)
  \/ \E j \in Jobs : cancel_audit_finish(j)
  \/ broker_down

Spec == Init /\ [][Next]_vars

\* The event loop runs every coroutine that is ready: a handler or task
\* that can take its next step takes it; requests and faults are not owed.
FairSpec ==
  /\ Spec
  /\ \A j \in Jobs : WF_vars(TaskStep(j))
  /\ \A j \in Jobs : WF_vars(cancel_audit_finish(j))

\* The audit job life cycle with a reader of the compliance summary. The
\* tasks never read the job status, so cancel requests do not change what
\* is written to stig.audit_results and are left out here.
ReadNext ==
  \/ \E j \in Jobs : start_audit(j)
  \/ \E j \in Jobs, platform \in UploadPlatforms :
       analyze_target_config(j, platform)
  \/ \E j \in Jobs : TaskStep(j)
  \/ \E j \in Jobs : run_raise(j)
  \/ \E j \in Jobs : summary_start(j)
  \/ summary_counts
  \/ summary_breakdown
  \/ broker_down

ReadSpec == Init /\ [][ReadNext]_vars

\* The audit job life cycle alone: jobs are started, uploads are analysed
\* for targets of every platform, and the tasks run to their end.
RunNext ==
  \/ \E j \in Jobs : start_audit(j)
  \/ \E j \in Jobs, platform \in UploadPlatforms :
       analyze_target_config(j, platform)
  \/ \E j \in Jobs : TaskStep(j)
  \/ \E j \in Jobs : run_raise(j)
  \/ broker_down

RunSpec == Init /\ [][RunNext]_vars

RunFairSpec == RunSpec /\ \A j \in Jobs : WF_vars(TaskStep(j))


\* ------------------------------------------------- rule source resolution
JobsIdle ==
  /\ js = FALSE
  /\ natsUp = FALSE
  /\ jobs = [j \in Jobs |-> AbsentRow]
  /\ results = [j \in Jobs |-> <<>>]
  /\ kind = [j \in Jobs |-> "none"]
  /\ pc = [j \in Jobs |-> "none"]
  /\ toWrite = [j \in Jobs |-> <<>>]
  /\ excMsg = [j \in Jobs |-> NULL]
  /\ cancelPc = [j \in Jobs |-> "idle"]
  /\ cancelSeen = [j \in Jobs |-> ABSENT]
  /\ cancelReply = [j \in Jobs |-> "none"]
  /\ everCancelled = [j \in Jobs |-> FALSE]
  /\ mqDown = [j \in Jobs |-> FALSE]
  /\ inProcess = [j \in Jobs |-> FALSE]
  /\ hasRules = [j \in Jobs |-> FALSE]
  /\ targetPlatform = [j \in Jobs |-> NULL]
  /\ rPc = "idle"
  /\ rJob = 1
  /\ rCounts = ZeroCounts
  /\ rBreak = ZeroBreakdown

\* The service starts with an empty rule cache; the library is either not
\* configured or holds some rules per benchmark.
ResolveInit ==
  /\ JobsIdle
  /\ LookupIdle
  /\ EvalIdle
  /\ ParserIdle
  /\ ExtIdle
  /\ evalIn = [platform |-> "OTHER", db_rules |-> <<>>, key |-> NULL,
               parses |-> FALSE]
  /\ evalRules = <<>>
  /\ xccdf_rules_cache = EmptyCache
  /\ \/ library = NoLibrary
     \/ \E r \in [BenchmarkIds -> XccdfRuleLists] :
          library = [ready |-> TRUE, rules |-> r]

\* One call of analyze_config on a configuration upload.
resolve_analyze ==
  \E platform \in Platforms, db_rules \in DbRuleLists,
     key \in BenchmarkIds \cup {NULL}, parses \in BOOLEAN :
    LET a == analyze_config(platform, db_rules, key, parses, "pass", 0,
                            xccdf_rules_cache, library)
    IN /\ evalIn' = [platform |-> platform, db_rules |-> db_rules,
                     key |-> key, parses |-> parses]
       /\ evalRules' = a.evaluated
       /\ xccdf_rules_cache' = a.cache
       /\ UNCHANGED <<library, jobVars, lookupOut, evalVars, parserVars, extVars>>

ResolveNext == resolve_analyze

ResolveSpec == ResolveInit /\ [][ResolveNext]_vars


\* ------------------------------------------------------ XCCDF rule cache
\* indexer.get_or_scan(force_rescan=True): the index is rebuilt from what
\* the scan finds in the library folder.
get_or_scan(lib, scanned) == [ready |-> TRUE, rules |-> scanned]

\* One call of _get_xccdf_rules(benchmark_id); the method has no await, so
\* it runs as one step of the event loop.
get_xccdf_rules_call ==
  \E b \in BenchmarkIds :
    LET g == get_xccdf_rules(xccdf_rules_cache, library, b)
    IN /\ xccdf_rules_cache' = g.cache
       /\ lookupOut' = [benchmark_id |-> b, rules |-> g.rules]
       /\ UNCHANGED <<library, evalIn, evalRules, jobVars, evalVars, parserVars,
                    extVars>>

\* POST /library/rescan with the library configured (503 otherwise): the
\* handler calls the indexer and nothing else; lookupOut is cleared here
\* because no lookup has been made since this rescan.
rescan_library ==
  /\ library.ready
  /\ \E scanned \in [BenchmarkIds -> XccdfRuleLists] :
       library' = get_or_scan(library, scanned)
  /\ lookupOut' = [benchmark_id |-> NULL, rules |-> <<>>]
  /\ UNCHANGED <<xccdf_rules_cache, evalIn, evalRules, jobVars, evalVars,
                 parserVars, extVars>>

CacheNext == get_xccdf_rules_call \/ rescan_library

CacheSpec == ResolveInit /\ [][CacheNext]_vars

\* ---------------------------------------------------------- rule evaluator
EvalInit ==
  JobsIdle /\ ResolveIdle /\ LookupIdle /\ EvalIdle /\ ParserIdle /\ ExtIdle

\* analyze_config, "Run built-in checks first": the loop over the built-in
\* checks of one platform.
evaluate_builtin ==
  \E platform \in Platforms, verdict \in CheckVerdicts, errAt \in 0..MaxErrAt :
    /\ ruleIn' = [source |-> "builtin", rules |-> PLATFORM_CHECKS(platform),
                  verdict |-> verdict, errAt |-> errAt]
    /\ ruleOut' = run_checks(PLATFORM_CHECKS(platform), verdict, errAt)
    /\ UNCHANGED <<jobVars, resolveVars, lookupOut, parserVars, extVars>>

\* One call of _evaluate_db_rules on rows of get_rules.
evaluate_db ==
  \E rules \in DbRuleLists, verdict \in CheckVerdicts, errAt \in 0..MaxErrAt :
    /\ ruleIn' = [source |-> "db", rules |-> rules,
                  verdict |-> verdict, errAt |-> errAt]
    /\ ruleOut' = evaluate_db_rules(rules, verdict, errAt)
    /\ UNCHANGED <<jobVars, resolveVars, lookupOut, parserVars, extVars>>

\* One call of _evaluate_xccdf_rules on rules of the library.
evaluate_xccdf ==
  \E rules \in XccdfRuleLists, verdict \in CheckVerdicts, errAt \in 0..MaxErrAt :
    /\ ruleIn' = [source |-> "xccdf", rules |-> rules,
                  verdict |-> verdict, errAt |-> errAt]
    /\ ruleOut' = evaluate_xccdf_rules(rules, verdict, errAt)
    /\ UNCHANGED <<jobVars, resolveVars, lookupOut, parserVars, extVars>>

EvalNext == evaluate_builtin \/ evaluate_db \/ evaluate_xccdf

EvalSpec == EvalInit /\ [][EvalNext]_vars


\* ----------------------------------------------------------- XCCDF parser
\* Settings defaults of core/config.py
max_xml_size == 50 * 1024 * 1024
max_zip_entry_size == 100 * 1024 * 1024
max_zip_entries == 500

\* Group elements of a Benchmark in document order: vuln_id is the id
\* attribute of the Group, has_rule tells whether it has a Rule child, and
\* rule_id is the id attribute of that Rule ("" when the attribute is missing).
GroupPool ==
  << [vuln_id |-> "V-1", has_rule |-> TRUE, rule_id |-> "", severity |-> "high"],
     [vuln_id |-> "V-2", has_rule |-> TRUE, rule_id |-> "SV-2r1_rule",
      severity |-> "medium"],
     [vuln_id |-> "V-3", has_rule |-> FALSE, rule_id |-> "", severity |-> "medium"] >>
GroupLists == SubLists(GroupPool, MaxGroups)

\* What SafeET.fromstring does with the bytes: returns the root, raises
\* ParseError (not well-formed), or raises EntitiesForbidden (an entity
\* declaration; a ValueError, not a ParseError).
XmlKinds == {"wellformed", "malformed", "entities"}
DocSizes == {max_xml_size, max_xml_size + 1}
\* A malformed document still holds the groups that precede the error.
Docs == [xml : XmlKinds, size : DocSizes, benchmark_id : {"", "bm-a"},
         groups : GroupLists]
EntryCounts == {max_zip_entries, max_zip_entries + 1}
\* info.file_size, the uncompressed size the archive declares for the entry
FileSizes == {max_zip_entry_size, max_zip_entry_size + 1}

NoEntry == [benchmark_id |-> NULL, rules_count |-> 0]

\* return None, [] -- log lists the limit checks and parse calls made.
EmptyResult(log) ==
  [raised |-> FALSE, entry |-> NoEntry, rules |-> <<>>, log |-> log]

\* _extract_rules(root)
extract_rules(groups) ==
  LET kept == SelectSeq(groups, LAMBDA g : g.has_rule)
  IN [i \in DOMAIN kept |-> [rule_id |-> kept[i].rule_id,
                             vuln_id |-> kept[i].vuln_id,
                             severity |-> kept[i].severity]]

\* A parse that keeps the rules read before the error.
parse_xccdf_content_partial(doc) ==
  IF doc.size > max_xml_size
    THEN EmptyResult(<<"xml_size">>)
    ELSE LET log == <<"xml_size", "parse">>
             rules == extract_rules(doc.groups)
         IN CASE doc.xml = "entities" ->
                   [raised |-> TRUE, entry |-> NoEntry, rules |-> <<>>, log |-> log]
              [] doc.xml = "wellformed" /\ doc.benchmark_id = "" -> EmptyResult(log)
              [] OTHER ->
                   [raised |-> FALSE,
                    entry |-> [benchmark_id |-> doc.benchmark_id,
                               rules_count |-> Len(rules)],
                    rules |-> rules, log |-> log]

\* _parse_xccdf_content(content): size check, SafeET.fromstring inside
\* try/except ET.ParseError, _extract_metadata (None without a benchmark
\* id), _extract_rules.
parse_xccdf_content(doc) ==
  IF doc.size > max_xml_size
    THEN EmptyResult(<<"xml_size">>)
    ELSE LET log == <<"xml_size", "parse">>
             rules == extract_rules(doc.groups)
         IN CASE doc.xml = "malformed" -> EmptyResult(log)
              [] doc.xml = "entities" ->
                   [raised |-> TRUE, entry |-> NoEntry, rules |-> <<>>, log |-> log]
              [] doc.benchmark_id = "" -> EmptyResult(log)
              [] OTHER ->
                   [raised |-> FALSE,
                    entry |-> [benchmark_id |-> doc.benchmark_id,
                               rules_count |-> Len(rules)],
                    rules |-> rules, log |-> log]

\* try: ... except Exception: return None, []
CatchAll(inner, log) ==
  IF inner.raised THEN EmptyResult(log \o inner.log)
                  ELSE [inner EXCEPT !.log = log \o inner.log]

\* A parse_zip that reads the entry without looking at its size.
parse_zip_no_size_check(valid, entries, has_xccdf, file_size, doc) ==
  IF ~valid THEN EmptyResult(<<>>)
  ELSE IF entries > max_zip_entries THEN EmptyResult(<<"entry_count">>)
  ELSE IF ~has_xccdf THEN EmptyResult(<<"entry_count">>)
  ELSE CatchAll(parse_xccdf_content(doc), <<"entry_count">>)

\* parse_zip(zip_path): valid is FALSE for a BadZipFile, entries is
\* len(zf.namelist()), has_xccdf what _find_xccdf_file finds, file_size is
\* info.file_size of that entry and doc the bytes read from it.
parse_zip(valid, entries, has_xccdf, file_size, doc) ==
  IF ~valid THEN EmptyResult(<<>>)
  ELSE IF entries > max_zip_entries THEN EmptyResult(<<"entry_count">>)
  ELSE IF ~has_xccdf THEN EmptyResult(<<"entry_count">>)
  ELSE IF file_size > max_zip_entry_size
    THEN EmptyResult(<<"entry_count", "entry_size">>)
  ELSE CatchAll(parse_xccdf_content(doc), <<"entry_count", "entry_size">>)

\* parse_xml(xml_path): the file size is checked before the file is read.
parse_xml(doc) ==
  IF doc.size > max_xml_size
    THEN EmptyResult(<<"xml_size">>)
    ELSE CatchAll(parse_xccdf_content(doc), <<"xml_size">>)

\* parse_bytes(content, filename): no try block of its own.
parse_bytes(doc) == parse_xccdf_content(doc)

ParserInit ==
  JobsIdle /\ ResolveIdle /\ LookupIdle /\ EvalIdle /\ ParserIdle /\ ExtIdle

parse_zip_call ==
  \E valid \in BOOLEAN, entries \in EntryCounts, has_xccdf \in BOOLEAN,
     file_size \in FileSizes, doc \in Docs :
    /\ xIn' = [entry_point |-> "zip", valid |-> valid, entries |-> entries,
               has_xccdf |-> has_xccdf, file_size |-> file_size, doc |-> doc]
    /\ xOut' = parse_zip(valid, entries, has_xccdf, file_size, doc)
    /\ UNCHANGED <<jobVars, resolveVars, lookupOut, evalVars, extVars>>

parse_xml_call ==
  \E doc \in Docs :
    /\ xIn' = [entry_point |-> "xml", valid |-> TRUE, entries |-> 0,
               has_xccdf |-> FALSE, file_size |-> 0, doc |-> doc]
    /\ xOut' = parse_xml(doc)
    /\ UNCHANGED <<jobVars, resolveVars, lookupOut, evalVars, extVars>>

parse_bytes_call ==
  \E doc \in Docs :
    /\ xIn' = [entry_point |-> "bytes", valid |-> TRUE, entries |-> 0,
               has_xccdf |-> FALSE, file_size |-> 0, doc |-> doc]
    /\ xOut' = parse_bytes(doc)
    /\ UNCHANGED <<jobVars, resolveVars, lookupOut, evalVars, extVars>>

ParserNext == parse_zip_call \/ parse_xml_call \/ parse_bytes_call

ParserSpec == ParserInit /\ [][ParserNext]_vars


\* ---------------------------------------------- starting audits, in batch
Defs == 1..MaxJobs

TargetNotFound == "Target not found"
TargetNotActive == "Target is not active"
DefinitionNotFound == "Definition not found"
InvalidFile == "Invalid file"

\* AuditService.start_audit: the checks before AuditJobRepository.create
\* (NULL when none of them raises ValueError).
start_audit_validate(t, def_exists) ==
  IF ~t.exists THEN TargetNotFound
  ELSE IF ~t.is_active THEN TargetNotActive
  ELSE IF ~def_exists THEN DefinitionNotFound
  ELSE NULL

\* analyze_target_config: the checks before AuditJobRepository.create
\* (file_ok: extension allowed, size within the limit, UTF-8 text).
analyze_validate(t, def_exists, file_ok) ==
  IF ~t.exists THEN TargetNotFound
  ELSE IF ~def_exists THEN DefinitionNotFound
  ELSE IF ~file_ok THEN InvalidFile
  ELSE NULL

Rows(js_) == {j \in Jobs : js_[j].status # ABSENT}
Members == {j \in Jobs : groupOf[j]}

\* The rows of a query with ORDER BY, as a list (ids stand for the sort key).
Ordered(S) ==
  CHOOSE q \in [1..Cardinality(S) -> S] :
    \A i, k \in 1..Cardinality(S) : i < k => q[i] < q[k]

\* TargetDefinitionRepository.list_by_target(enabled_only=True): enabled
\* assignments joined with stig.definitions, in the order of the query.
list_by_target(assigned, defs) == Ordered(assigned \cap defs)

\* AuditGroupRepository.get_jobs: the member jobs in the order of the query.
get_jobs(members) == Ordered(members)

\* The database as the requests find it; the service is not connected to
\* NATS, so the jobs run in process.
BatchInit ==
  /\ JobsIdle /\ ResolveIdle /\ LookupIdle /\ EvalIdle /\ ParserIdle
  /\ GroupReadIdle /\ ScoreIdle /\ SniffIdle /\ JunosIdle
  /\ LiveIdle
  /\ target \in [exists : BOOLEAN, is_active : BOOLEAN]
  /\ definitions \in SUBSET Defs
  /\ enabled \in SUBSET definitions
  /\ groupExists = FALSE
  /\ groupOf = [j \in Jobs |-> FALSE]
  /\ gPc = "idle"
  /\ gFrozen = <<>>
  /\ gList = <<>>
  /\ startOut = NoStart

\* start_audit is inside its hand-off: the caller is still waiting.
InStartAudit(j) == pc[j] \in {"submit", "submit_failed"}

\* POST /audits: audit_service.start_audit up to the INSERT; ValueError is
\* answered with 400.
post_audit(j, d) ==
  /\ gPc # "loop"
  /\ LET error == start_audit_validate(target, d \in definitions)
     IN /\ IF error = NULL
             THEN /\ FreshId(j)
                  /\ jobs' = [jobs EXCEPT ![j] = NewJobRow]
                  /\ kind' = [kind EXCEPT ![j] = "async"]
                  /\ pc' = [pc EXCEPT ![j] = "submit"]
             ELSE UNCHANGED <<jobs, kind, pc>>
        /\ startOut' = [via |-> "start_audit", definition |-> d, error |-> error,
                        created |-> Cardinality(Rows(jobs')) -
                                    Cardinality(Rows(jobs))]
  /\ UNCHANGED <<envVars, results, toWrite, excMsg, cancelVars, mqDown,
                 inProcess, runVars, readerVars, resolveVars, lookupOut,
                 evalVars, parserVars, target, definitions, enabled,
                 groupExists, groupOf, gPc, gFrozen, gList, groupReadVars,
                 scoreVars, sniffVars, junosVars, liveVars>>

\* POST /targets/{id}/analyze-config up to the INSERT; a failed check is
\* answered with 404, 400 or 413.
post_analyze(j, d, file_ok) ==
  /\ gPc # "loop"
  /\ LET error == analyze_validate(target, d \in definitions, file_ok)
     IN /\ IF error = NULL
             THEN /\ FreshId(j)
                  /\ jobs' = [jobs EXCEPT ![j] = NewJobRow]
                  /\ kind' = [kind EXCEPT ![j] = "upload"]
                  /\ pc' = [pc EXCEPT ![j] = "start"]
                  /\ targetPlatform' = [targetPlatform EXCEPT ![j] = "MELLANOX"]
             ELSE UNCHANGED <<jobs, kind, pc, targetPlatform>>
        /\ startOut' = [via |-> "analyze_target_config", definition |-> d,
                        error |-> error,
                        created |-> Cardinality(Rows(jobs')) -
                                    Cardinality(Rows(jobs))]
  /\ UNCHANGED <<envVars, results, toWrite, excMsg, cancelVars, mqDown,
                 inProcess, hasRules, readerVars, resolveVars, lookupOut,
                 evalVars, parserVars, target, definitions, enabled,
                 groupExists, groupOf, gPc, gFrozen, gList, groupReadVars,
                 scoreVars, sniffVars, junosVars, liveVars>>

\* start_audit_all up to AuditGroupRepository.create: 404 without the
\* target, 400 without an enabled assignment, else the group row. The job
\* ids at hand bound the number of assignments a batch can start.
start_audit_all_create ==
  /\ gPc = "idle"
  /\ LET listed == list_by_target(enabled, definitions)
     IN IF ~target.exists
          THEN /\ gPc' = "404"
               /\ UNCHANGED <<groupExists, gFrozen, gList>>
          ELSE IF listed = <<>>
            THEN /\ gPc' = "400"
                 /\ UNCHANGED <<groupExists, gFrozen, gList>>
            ELSE /\ Cardinality(Jobs \ Rows(jobs)) >= Len(listed)
                 /\ groupExists' = TRUE
                 /\ gFrozen' = listed
                 /\ gList' = listed
                 /\ gPc' = "loop"
  /\ UNCHANGED <<jobVars, resolveVars, lookupOut, evalVars, parserVars,
                 target, definitions, enabled, groupOf, startOut,
                 groupReadVars, scoreVars,
                 sniffVars, junosVars, liveVars>>

\* start_audit_all, one turn of "for td in definitions": start_audit with
\* audit_group_id=group.id up to the INSERT; an exception is logged and
\* the loop goes on.
start_audit_all_job(j) ==
  /\ gPc = "loop"
  /\ gList # <<>>
  /\ \A i \in Jobs : ~InStartAudit(i)
  /\ LET error == start_audit_validate(target, Head(gList) \in definitions)
     IN /\ IF error = NULL
             THEN /\ FreshId(j)
                  /\ jobs' = [jobs EXCEPT ![j] = NewJobRow]
                  /\ kind' = [kind EXCEPT ![j] = "async"]
                  /\ pc' = [pc EXCEPT ![j] = "submit"]
                  /\ groupOf' = [groupOf EXCEPT ![j] = TRUE]
             ELSE UNCHANGED <<jobs, kind, pc, groupOf>>
        /\ startOut' = [via |-> "start_audit_all", definition |-> Head(gList),
                        error |-> error,
                        created |-> Cardinality(Rows(jobs')) -
                                    Cardinality(Rows(jobs))]
  /\ gList' = Tail(gList)
  /\ UNCHANGED <<envVars, results, toWrite, excMsg, cancelVars, mqDown,
                 inProcess, runVars, readerVars, resolveVars, lookupOut,
                 evalVars, parserVars, target, definitions, enabled,
                 groupExists, gPc, gFrozen, groupReadVars, scoreVars,
                 sniffVars, junosVars, liveVars>>

\* start_audit_all after the loop: the group is read again and returned
\* with 201.
start_audit_all_refresh ==
  /\ gPc = "loop"
  /\ gList = <<>>
  /\ \A i \in Jobs : ~InStartAudit(i)
  /\ gPc' = "done"
  /\ UNCHANGED <<jobVars, resolveVars, lookupOut, evalVars, parserVars,
                 target, definitions, enabled, groupExists, groupOf,
                 gFrozen, gList, startOut, groupReadVars, scoreVars,
                 sniffVars, junosVars, liveVars>>

\* get_audit_group_summary, "if job["status"] == "completed"": what one
\* member job adds to the totals, whatever its status.
group_contribution_any(status, counts) == counts

\* get_audit_group_summary, "if job["status"] == "completed"": what one
\* member job adds to the totals.
group_contribution(status, counts) ==
  IF status = COMPLETED THEN counts ELSE ZeroCounts

\* get_audit_group_summary up to jobs = await get_jobs(group_id) and the
\* read of the target.
group_summary_start ==
  /\ sPc = "idle"
  /\ groupExists
  /\ sJobs' = [j \in Jobs |-> IF groupOf[j] THEN jobs[j].status ELSE ABSENT]
  /\ sList' = get_jobs(Members)
  /\ sTotals' = ZeroCounts
  /\ sPc' = "loop"
  /\ UNCHANGED <<jobVars, resolveVars, lookupOut, evalVars, parserVars,
                 batchVars, scoreVars, sniffVars, junosVars, liveVars>>

\* One turn of "for job in jobs": get_compliance_summary of a job that was
\* read as completed, added to the totals.
group_summary_job ==
  /\ sPc = "loop"
  /\ sList # <<>>
  /\ LET j == Head(sList)
         add == group_contribution(sJobs[j], get_summary(results[j]))
     IN sTotals' = [st \in CheckStatus |-> sTotals[st] + add[st]]
  /\ sList' = Tail(sList)
  /\ UNCHANGED <<jobVars, resolveVars, lookupOut, evalVars, parserVars,
                 batchVars, sPc, sJobs, scoreVars, sniffVars, junosVars, liveVars>>

\* The response with the totals.
group_summary_reply ==
  /\ sPc = "loop"
  /\ sList = <<>>
  /\ sPc' = "done"
  /\ UNCHANGED <<jobVars, resolveVars, lookupOut, evalVars, parserVars,
                 batchVars, sJobs, sList, sTotals, scoreVars,
                 sniffVars, junosVars, liveVars>>

\* The steps of a job that start_audit created and runs in process.
MemberStep(j) ==
  \/ start_audit_handoff(j)
  \/ run_start(j)
  \/ run_audit_load(j)
  \/ run_not_found(j)
  \/ run_write(j)
  \/ run_last_audit(j)
  \/ run_complete(j)
  \/ run_fail(j)

\* Requests that start audits, one at a time or for all enabled
\* assignments of the target, and the tasks of the jobs they create.
BatchNext ==
  \/ \E j \in Jobs, d \in Defs : post_audit(j, d)
  \/ \E j \in Jobs, d \in Defs, file_ok \in BOOLEAN : post_analyze(j, d, file_ok)
  \/ start_audit_all_create
  \/ \E j \in Jobs : start_audit_all_job(j)
  \/ start_audit_all_refresh
  \/ \E j \in Jobs : MemberStep(j)
  \/ \E j \in Jobs : upload_analyze(j)
  \/ \E j \in Jobs : upload_summary(j)
  \/ \E j \in Jobs : run_raise(j)

BatchSpec == BatchInit /\ [][BatchNext]_vars

\* An active target with every definition assigned and enabled, and a
\* service that is not connected to NATS, so that the jobs run in process.
GroupReadInit ==
  /\ JobsIdle /\ ResolveIdle /\ LookupIdle /\ EvalIdle /\ ParserIdle
  /\ GroupReadIdle /\ ScoreIdle /\ SniffIdle /\ JunosIdle
  /\ LiveIdle
  /\ target = [exists |-> TRUE, is_active |-> TRUE]
  /\ definitions = Defs
  /\ enabled = Defs
  /\ groupExists = FALSE
  /\ groupOf = [j \in Jobs |-> FALSE]
  /\ gPc = "idle"
  /\ gFrozen = <<>>
  /\ gList = <<>>
  /\ startOut = NoStart

\* A batch of audits for the target and readers of the group summary.
GroupReadNext ==
  \/ start_audit_all_create
  \/ \E j \in Jobs : start_audit_all_job(j)
  \/ start_audit_all_refresh
  \/ group_summary_start
  \/ group_summary_job
  \/ group_summary_reply
  \/ \E j \in Jobs : MemberStep(j)
  \/ \E j \in Jobs : run_raise(j)

GroupReadSpec == GroupReadInit /\ [][GroupReadNext]_vars


\* -------------------------------------------------------- compliance score
\* round(num / den * 100, 2) in hundredths of a percent; round() settles a
\* tie that the float holds exactly (x.xx5 with a dyadic fraction) to even.
round2_percent(num, den) ==
  LET q == (10000 * num) \div den
      r == (10000 * num) % den
  IN IF 2 * r > den THEN q + 1
     ELSE IF 2 * r = den THEN q + (q % 2)
     ELSE q

\* A summary whose score is the share of passed checks among all checks.
compliance_summary_of_total(status_counts) ==
  LET total == SumOver(CheckStatus, status_counts)
      passed == status_counts["pass"]
      failed == status_counts["fail"]
  IN [total_checks |-> total, passed |-> passed, failed |-> failed,
      compliance_score |-> IF total > 0 THEN round2_percent(passed, total)
                                        ELSE 0]

\* get_compliance_summary from status_counts on: total, passed, failed,
\* applicable = passed + failed, score, round(score, 2).
compliance_summary(status_counts) ==
  LET total == SumOver(CheckStatus, status_counts)
      passed == status_counts["pass"]
      failed == status_counts["fail"]
      applicable == passed + failed
  IN [total_checks |-> total, passed |-> passed, failed |-> failed,
      compliance_score |-> IF applicable > 0
                             THEN round2_percent(passed, applicable)
                             ELSE 0]

\* get_audit_group_summary, "Calculate overall compliance"
overall_compliance_score(total_passed, total_failed) ==
  IF (total_passed + total_failed) > 0
    THEN round2_percent(total_passed, total_passed + total_failed)
    ELSE 0

ScoreInit ==
  /\ JobsIdle /\ ResolveIdle /\ LookupIdle /\ EvalIdle /\ ParserIdle
  /\ BatchIdle /\ GroupReadIdle /\ ScoreIdle /\ SniffIdle /\ JunosIdle
  /\ LiveIdle

\* get_compliance_summary on the counts that get_summary returned.
job_summary ==
  \E counts \in [CheckStatus -> 0..MaxCount] :
    /\ scoreIn' = [op |-> "job", counts |-> counts]
    /\ scoreOut' = compliance_summary(counts)
    /\ UNCHANGED <<jobVars, resolveVars, lookupOut, evalVars, parserVars,
                   batchVars, groupReadVars, sniffVars, junosVars, liveVars>>

\* get_audit_group_summary on the totals its loop has summed.
group_summary ==
  \E counts \in [CheckStatus -> 0..MaxCount] :
    /\ scoreIn' = [op |-> "group", counts |-> counts]
    /\ scoreOut' = [total_checks |-> SumOver(CheckStatus, counts),
                    passed |-> counts["pass"], failed |-> counts["fail"],
                    compliance_score |->
                      overall_compliance_score(counts["pass"], counts["fail"])]
    /\ UNCHANGED <<jobVars, resolveVars, lookupOut, evalVars, parserVars,
                   batchVars, groupReadVars, sniffVars, junosVars, liveVars>>

ScoreNext == job_summary \/ group_summary

ScoreSpec == ScoreInit /\ [][ScoreNext]_vars


\* -------------------------------------------------------- heuristic checks
\* The words the if/elif chains look for: in the lower-cased check text
\* ("sshd" holds "ssh"; "quoted" stands for a quoted string or a grep
\* pattern that _extract_config_patterns would find) and in the title.
TextWords == {"ssh", "sshd", "ntp", "syslog", "snmp", "aaa", "banner", "quoted"}
TitleWords == {"ssh", "time", "log", "authentication"}

\* Rules without a typed check descriptor, by the words they hold.
SniffRules ==
  {r \in [text : SUBSET TextWords, title : SUBSET TitleWords] :
     Cardinality(r.text) + Cardinality(r.title) <= MaxKeywords}

\* _evaluate_single_db_rule: the branch of the if/elif chain that is taken
\* ("manual" is the else branch, NOT_REVIEWED without any search).
db_rule_check(text, title) ==
  IF text \cap {"ssh", "sshd"} # {} THEN "ssh"
  ELSE IF "ntp" \in text THEN "ntp"
  ELSE IF "syslog" \in text \/ "log" \in title THEN "syslog"
  ELSE IF "snmp" \in text THEN "snmp"
  ELSE IF "banner" \in text THEN "banner"
  ELSE "manual"

\* _evaluate_single_xccdf_rule: the branch of the if/elif chain that is
\* taken ("generic" is the pattern search in raw_content).
xccdf_rule_check(text, title) ==
  IF "sshd" \in text \/ "ssh" \in title THEN "ssh"
  ELSE IF "ntp" \in text \/ "time" \in title THEN "ntp"
  ELSE IF "syslog" \in text \/ "log" \in title THEN "syslog"
  ELSE IF "snmp" \in text THEN "snmp"
  ELSE IF "aaa" \in text \/ "authentication" \in title THEN "aaa"
  ELSE IF "banner" \in text THEN "banner"
  ELSE "generic"

SniffInit ==
  /\ JobsIdle /\ ResolveIdle /\ LookupIdle /\ EvalIdle /\ ParserIdle
  /\ BatchIdle /\ GroupReadIdle /\ ScoreIdle /\ SniffIdle /\ JunosIdle
  /\ LiveIdle

\* One call of _evaluate_single_db_rule.
sniff_db_rule ==
  \E r \in SniffRules :
    /\ sniffIn' = [source |-> "db", text |-> r.text, title |-> r.title]
    /\ sniffOut' = db_rule_check(r.text, r.title)
    /\ UNCHANGED <<jobVars, resolveVars, lookupOut, evalVars, parserVars,
                   batchVars, groupReadVars, scoreVars, junosVars, liveVars>>

\* One call of _evaluate_single_xccdf_rule.
sniff_xccdf_rule ==
  \E r \in SniffRules :
    /\ sniffIn' = [source |-> "xccdf", text |-> r.text, title |-> r.title]
    /\ sniffOut' = xccdf_rule_check(r.text, r.title)
    /\ UNCHANGED <<jobVars, resolveVars, lookupOut, evalVars, parserVars,
                   batchVars, groupReadVars, scoreVars, junosVars, liveVars>>

SniffNext == sniff_db_rule \/ sniff_xccdf_rule

SniffSpec == SniffInit /\ [][SniffNext]_vars


\* ------------------------------------------------------------ JunOS parser
\* Lines of a JunOS configuration, stripped: section openers, the closing
\* brace, statements and a comment.
JunosOpeners == {"system {", "ntp {"}
JunosLines == JunosOpeners \cup {"}", "server 10.0.0.1;", "host-name r1;", "# note"}
JunosContents == UNION {[1..n -> JunosLines] : n \in 0..MaxLines}

\* stripped[:-1].strip() of a line that ends with "{"
section_name(line) == IF line = "system {" THEN "system" ELSE "ntp"

\* current_path.pop() without a test: IndexError on an empty list.
close_section_pop(st) ==
  IF st.current_path = <<>>
    THEN [st EXCEPT !.raised = TRUE]
    ELSE [st EXCEPT !.current_path = SubSeq(@, 1, Len(@) - 1)]

\* elif stripped == "}": if current_path: current_path.pop()
close_section(st) ==
  IF st.current_path # <<>>
    THEN [st EXCEPT !.current_path = SubSeq(@, 1, Len(@) - 1)]
    ELSE st

\* The else branch on the statements of JunosLines: host-name and the
\* server of an ntp section (" ".join(current_path) holds "ntp").
junos_statement(st, line) ==
  LET in_ntp == \E i \in DOMAIN st.current_path : st.current_path[i] = "ntp"
  IN [st EXCEPT
        !.hostname = IF line = "host-name r1;" THEN "r1" ELSE @,
        !.ntp_servers = IF in_ntp /\ line = "server 10.0.0.1;"
                          THEN Append(@, "10.0.0.1") ELSE @]

\* One turn of "for line in lines"; an exception ends the loop.
junos_line(st, line) ==
  IF st.raised THEN st
  ELSE LET after ==
             CASE line = "# note" -> st
               [] line \in JunosOpeners ->
                    [st EXCEPT !.current_path = Append(@, section_name(line))]
               [] line = "}" -> close_section(st)
               [] OTHER -> junos_statement(st, line)
       IN [after EXCEPT !.paths = Append(@, after.current_path)]

\* JuniperJunOSParser.parse(content)
RECURSIVE junos_parse_from(_, _)
junos_parse_from(st, lines) ==
  IF lines = <<>> THEN st
  ELSE junos_parse_from(junos_line(st, Head(lines)), Tail(lines))

junos_parse(lines) == junos_parse_from(JunosStart, lines)

JunosInit ==
  /\ JobsIdle /\ ResolveIdle /\ LookupIdle /\ EvalIdle /\ ParserIdle
  /\ BatchIdle /\ GroupReadIdle /\ ScoreIdle /\ SniffIdle /\ JunosIdle
  /\ LiveIdle

\* One call of JuniperJunOSParser.parse.
junos_parse_call ==
  \E lines \in JunosContents :
    /\ junosIn' = lines
    /\ junosOut' = junos_parse(lines)
    /\ UNCHANGED <<jobVars, resolveVars, lookupOut, evalVars, parserVars,
                   batchVars, groupReadVars, scoreVars, sniffVars, liveVars>>

JunosNext == junos_parse_call

JunosSpec == JunosInit /\ [][JunosNext]_vars


\* ------------------------------------------------------------ SSH auditor
\* Everything the audit job machine and the pure checkers own.
auditVars == <<jobVars, resolveVars, lookupOut, evalVars, parserVars,
               batchVars, groupReadVars, scoreVars, sniffVars, junosVars>>

AllIdle ==
  /\ JobsIdle /\ ResolveIdle /\ LookupIdle /\ EvalIdle /\ ParserIdle
  /\ ExtIdle

NoDeadline == -1

connect_deadline_none == NoDeadline

\* asyncio.wait_for(asyncssh.connect(...),
\*                  timeout=settings.default_ssh_timeout) in connect.
connect_deadline == default_ssh_timeout

\* What conn.run gives run_command: an exit status with output that holds a
\* success pattern, a failure pattern or neither; a command timeout or an
\* asyncssh.Error is exit code -1 with no output.
RunOutcomes ==
  [exit_code : {0, 1}, stdout : {"success", "failure", "other"}]
    \cup {[exit_code |-> -1, stdout |-> "other"]}

\* run_command when connect returned None: ("", "Connection failed", -1).
ConnectionFailed == [exit_code |-> -1, stdout |-> "other"]

\* SSHAuditor._evaluate_result.
evaluate_result(out) ==
  IF out.exit_code = -1 THEN "error"
  ELSE IF out.stdout = "success" THEN "pass"
  ELSE IF out.stdout = "failure" THEN "fail"
  ELSE IF out.exit_code = 0 THEN "pass"
  ELSE "fail"

\* The rule lists of a definition: per rule, whether _extract_check_command
\* finds a command for its title.
SshRuleLists == UNION {[1..n -> BOOLEAN] : n \in 0..MaxSshRules}

\* results.append(...) of the loop of audit_target, then the next rule.
\* cause records which path produced the result.
ssh_result(status, cause) ==
  /\ sshResults' = Append(sshResults, [status |-> status, cause |-> cause])
  /\ sshIdx' = sshIdx + 1
  /\ sshPc' = "rule"

\* audit_target up to its loop: no rules returns the empty list.
audit_target_start ==
  /\ sshPc \in {"idle", "done"}
  /\ \E rules \in SshRuleLists, creds \in BOOLEAN :
       /\ sshRules' = rules
       /\ sshCreds' = creds
       /\ sshPc' = IF rules = <<>> THEN "done" ELSE "rule"
  /\ sshIdx' = 1
  /\ sshResults' = <<>>
  /\ UNCHANGED <<sshConn, sshClock>>
  /\ UNCHANGED <<auditVars, fwdVars, colVars>>

\* The head of the loop and audit_rule up to run_command: a rule without a
\* check command is NOT_REVIEWED and needs no connection.
audit_rule_begin ==
  /\ sshPc = "rule"
  /\ IF sshIdx > Len(sshRules)
       THEN /\ sshPc' = "done"
            /\ UNCHANGED <<sshIdx, sshResults>>
       ELSE IF ~sshRules[sshIdx]
         THEN ssh_result("not_reviewed", "no_command")
         ELSE /\ sshPc' = "connect"
              /\ UNCHANGED <<sshIdx, sshResults>>
  /\ UNCHANGED <<sshRules, sshCreds, sshConn, sshClock>>
  /\ UNCHANGED <<auditVars, fwdVars, colVars>>

\* connect up to the wait_for: a cached connection is returned, missing
\* credentials return None, otherwise the connect is started.
ssh_connect ==
  /\ sshPc = "connect"
  /\ IF sshConn
       THEN /\ sshPc' = "run"
            /\ UNCHANGED <<sshIdx, sshResults, sshClock>>
       ELSE IF ~sshCreds
         THEN /\ ssh_result(evaluate_result(ConnectionFailed),
                            "no_credentials")
              /\ UNCHANGED sshClock
         ELSE /\ sshPc' = "wait"
              /\ sshClock' = 0
              /\ UNCHANGED <<sshIdx, sshResults>>
  /\ UNCHANGED <<sshRules, sshCreds, sshConn>>
  /\ UNCHANGED <<auditVars, fwdVars, colVars>>

\* The peer completes the handshake: the connection is cached.
ssh_peer_accept ==
  /\ sshPc = "wait"
  /\ sshConn' = TRUE
  /\ sshPc' = "run"
  /\ UNCHANGED <<sshRules, sshIdx, sshCreds, sshClock, sshResults>>
  /\ UNCHANGED <<auditVars, fwdVars, colVars>>

\* The peer refuses the TCP connection: ConnectionRefusedError is an OSError,
\* none of connect's except clauses, so it leaves connect, run_command and
\* audit_rule and is caught by "except Exception" in audit_target.
ssh_peer_refuse ==
  /\ sshPc = "wait"
  /\ ssh_result("error", "refused")
  /\ UNCHANGED <<sshRules, sshCreds, sshConn, sshClock>>
  /\ UNCHANGED <<auditVars, fwdVars, colVars>>

\* The handshake fails with an asyncssh.Error (authentication, host key):
\* connect returns None.
ssh_peer_reject ==
  /\ sshPc = "wait"
  /\ ssh_result(evaluate_result(ConnectionFailed), "rejected")
  /\ UNCHANGED <<sshRules, sshCreds, sshConn, sshClock>>
  /\ UNCHANGED <<auditVars, fwdVars, colVars>>

\* A second passes while the connect is pending.
ssh_tick ==
  /\ sshPc = "wait"
  /\ connect_deadline # NoDeadline
  /\ sshClock < connect_deadline
  /\ sshClock' = sshClock + 1
  /\ UNCHANGED <<sshPc, sshRules, sshIdx, sshCreds, sshConn, sshResults>>
  /\ UNCHANGED <<auditVars, fwdVars, colVars>>

\* wait_for cancels the connect at the deadline and raises TimeoutError:
\* connect returns None.
ssh_timeout ==
  /\ sshPc = "wait"
  /\ sshClock = connect_deadline
  /\ ssh_result(evaluate_result(ConnectionFailed), "timeout")
  /\ UNCHANGED <<sshRules, sshCreds, sshConn, sshClock>>
  /\ UNCHANGED <<auditVars, fwdVars, colVars>>

\* run_command on the connection and _evaluate_result of what it gave.
ssh_run ==
  /\ sshPc = "run"
  /\ \E out \in RunOutcomes : ssh_result(evaluate_result(out), "command")
  /\ UNCHANGED <<sshRules, sshCreds, sshConn, sshClock>>
  /\ UNCHANGED <<auditVars, fwdVars, colVars>>

\* The steps the event loop runs on its own: ready coroutines and timers.
SshStep ==
  audit_rule_begin \/ ssh_connect \/ ssh_tick \/ ssh_timeout \/ ssh_run

SshNext ==
  \/ audit_target_start
  \/ audit_rule_begin
  \/ ssh_connect
  \/ ssh_peer_accept
  \/ ssh_peer_refuse
  \/ ssh_peer_reject
  \/ ssh_tick
  \/ ssh_timeout
  \/ ssh_run

SshSpec == AllIdle /\ [][SshNext]_vars

SshFairSpec == SshSpec /\ WF_vars(SshStep)


\* -------------------------------------------------------- syslog forwarder
\* asyncio.Lock.acquire: the lock is taken only when no task holds it, the
\* task that holds it included (the lock is not reentrant).
fwd_acquire(t) == buffer_lock = NoTask

\* forward for an event that passes _matches_filter, up to the
\* "async with self.buffer_lock". An event that does not match returns at
\* once and touches nothing.
forward_call(t) ==
  /\ t \in FwdCallers
  /\ fwdPc[t] = "idle"
  /\ fwdPc' = [fwdPc EXCEPT ![t] = "forward_lock"]
  /\ UNCHANGED <<buffer, buffer_lock, fwdMessages>>
  /\ UNCHANGED <<auditVars, sshVars, colVars>>

\* forward inside the lock: append, then either leave the block, which
\* releases the lock, or call _flush_buffer with the lock still held.
forward_append(t) ==
  /\ fwdPc[t] = "forward_lock"
  /\ fwd_acquire(t)
  /\ buffer' = buffer + 1
  /\ IF buffer' >= buffer_size
       THEN /\ buffer_lock' = t
            /\ fwdPc' = [fwdPc EXCEPT ![t] = "flush_lock"]
       ELSE /\ buffer_lock' = NoTask
            /\ fwdPc' = [fwdPc EXCEPT ![t] = "idle"]
  /\ UNCHANGED fwdMessages
  /\ UNCHANGED <<auditVars, sshVars, colVars>>

\* _flush_periodically wakes up and calls _flush_buffer.
flush_call ==
  /\ fwdPc[Flusher] = "idle"
  /\ fwdPc' = [fwdPc EXCEPT ![Flusher] = "flush_lock"]
  /\ UNCHANGED <<buffer, buffer_lock, fwdMessages>>
  /\ UNCHANGED <<auditVars, sshVars, colVars>>

\* _flush_buffer returns to what called it: the periodic task is done; in
\* forward the "async with" block ends and releases the lock forward holds.
flush_return(t) == [fwdPc EXCEPT ![t] = "idle"]

\* The first "async with self.buffer_lock" of _flush_buffer: return on an
\* empty buffer, otherwise take the messages and leave the block.
flush_take(t) ==
  /\ fwdPc[t] = "flush_lock"
  /\ fwd_acquire(t)
  /\ IF buffer = 0
       THEN /\ fwdPc' = flush_return(t)
            /\ UNCHANGED <<buffer, fwdMessages>>
       ELSE /\ fwdMessages' = [fwdMessages EXCEPT ![t] = buffer]
            /\ buffer' = 0
            /\ fwdPc' = [fwdPc EXCEPT ![t] = "send"]
  /\ buffer_lock' = NoTask
  /\ UNCHANGED <<auditVars, sshVars, colVars>>

\* One round of "for message in messages": _send_message succeeds or, after
\* its retries, fails; the loop ends when no message is left.
flush_send(t) ==
  /\ fwdPc[t] = "send"
  /\ IF fwdMessages[t] = 0
       THEN /\ fwdPc' = flush_return(t)
            /\ buffer_lock' = IF buffer_lock = t THEN NoTask ELSE buffer_lock
            /\ UNCHANGED fwdMessages
       ELSE /\ \E success \in BOOLEAN :
                 IF success
                   THEN /\ fwdMessages' =
                             [fwdMessages EXCEPT ![t] = fwdMessages[t] - 1]
                        /\ UNCHANGED fwdPc
                   ELSE /\ fwdPc' = [fwdPc EXCEPT ![t] = "readd_lock"]
                        /\ UNCHANGED fwdMessages
            /\ UNCHANGED buffer_lock
  /\ UNCHANGED buffer
  /\ UNCHANGED <<auditVars, sshVars, colVars>>

\* The second "async with self.buffer_lock": the failed message goes back
\* to the front of the buffer unless the buffer holds 2 * buffer_size.
flush_readd(t) ==
  /\ fwdPc[t] = "readd_lock"
  /\ fwd_acquire(t)
  /\ buffer' = IF buffer < buffer_size * 2 THEN buffer + 1 ELSE buffer
  /\ fwdMessages' = [fwdMessages EXCEPT ![t] = fwdMessages[t] - 1]
  /\ fwdPc' = [fwdPc EXCEPT ![t] = "send"]
  /\ UNCHANGED buffer_lock
  /\ UNCHANGED <<auditVars, sshVars, colVars>>

\* The steps of a task that wait for the lock, and those that do not.
FwdLockStep(t) == forward_append(t) \/ flush_take(t) \/ flush_readd(t)

FwdFreeStep(t) == flush_send(t)

FwdNext ==
  \/ \E t \in FwdTasks :
       \/ forward_call(t)
       \/ forward_append(t)
       \/ flush_take(t)
       \/ flush_send(t)
       \/ flush_readd(t)
  \/ flush_call

FwdSpec == AllIdle /\ [][FwdNext]_vars

\* The event loop runs every ready task, and asyncio.Lock wakes its waiters
\* in the order they arrived, so a task that finds the lock free again and
\* again does get it.
FwdFairSpec ==
  /\ FwdSpec
  /\ \A t \in FwdTasks : WF_vars(FwdFreeStep(t)) /\ SF_vars(FwdLockStep(t))


\* -------------------------------------------------------- syslog collector
\* The backpressure test of process_message before the event is parsed.
backpressure(n) == n >= SYSLOG_MAX_BUFFER_SIZE

backpressure_locked_never(n) == FALSE

\* The same test again inside "async with self.buffer_lock".
backpressure_locked(n) == n >= SYSLOG_MAX_BUFFER_SIZE

\* start: the pool is created; it is never set back to None.
collector_start ==
  /\ ~db_pool
  /\ db_pool' = TRUE
  /\ UNCHANGED <<colPc, event_buffer, event_buffer_lock, colEvents>>
  /\ UNCHANGED <<auditVars, sshVars, fwdVars>>

\* process_message up to "async with self.buffer_lock" for a datagram that
\* passes the size, allowlist and rate checks. A datagram that fails one of
\* them, or that finds the buffer full, is counted and dropped.
process_message_call(t) ==
  /\ t \in Receivers
  /\ colPc[t] = "idle"
  /\ ~backpressure(event_buffer)
  /\ colPc' = [colPc EXCEPT ![t] = "lock"]
  /\ UNCHANGED <<event_buffer, event_buffer_lock, colEvents, db_pool>>
  /\ UNCHANGED <<auditVars, sshVars, fwdVars>>

\* _flush_buffer_internal up to its first await, called by task t with the
\* lock held and n events in the buffer: nothing to do without events or
\* pool, otherwise the events are taken and the buffer is emptied.
flush_internal_begin(t, n) ==
  IF n = 0 \/ ~db_pool
    THEN /\ event_buffer' = n
         /\ event_buffer_lock' = NoTask
         /\ colPc' = [colPc EXCEPT ![t] = "idle"]
         /\ UNCHANGED colEvents
    ELSE /\ colEvents' = [colEvents EXCEPT ![t] = n]
         /\ event_buffer' = 0
         /\ event_buffer_lock' = t
         /\ colPc' = [colPc EXCEPT ![t] = "db"]

\* process_message inside the lock: drop on a full buffer, else append and
\* flush when batch_size is reached.
process_message_append(t) ==
  /\ t \in Receivers
  /\ colPc[t] = "lock"
  /\ event_buffer_lock = NoTask
  /\ IF backpressure_locked(event_buffer)
       THEN /\ colPc' = [colPc EXCEPT ![t] = "idle"]
            /\ UNCHANGED <<event_buffer, event_buffer_lock, colEvents>>
       ELSE IF event_buffer + 1 >= batch_size
         THEN flush_internal_begin(t, event_buffer + 1)
         ELSE /\ event_buffer' = event_buffer + 1
              /\ colPc' = [colPc EXCEPT ![t] = "idle"]
              /\ UNCHANGED <<event_buffer_lock, colEvents>>
  /\ UNCHANGED db_pool
  /\ UNCHANGED <<auditVars, sshVars, fwdVars>>

\* flush_buffer_periodically, or stop, calls flush_buffer.
flush_buffer_call ==
  /\ colPc[Flusher] = "idle"
  /\ colPc' = [colPc EXCEPT ![Flusher] = "lock"]
  /\ UNCHANGED <<event_buffer, event_buffer_lock, colEvents, db_pool>>
  /\ UNCHANGED <<auditVars, sshVars, fwdVars>>

\* flush_buffer: the lock, then _flush_buffer_internal.
flush_buffer ==
  /\ colPc[Flusher] = "lock"
  /\ event_buffer_lock = NoTask
  /\ flush_internal_begin(Flusher, event_buffer)
  /\ UNCHANGED db_pool
  /\ UNCHANGED <<auditVars, sshVars, fwdVars>>

\* The database part of _flush_buffer_internal ends, with the lock still
\* held: the events are stored, or an exception puts them back in front of
\* the buffer unless the buffer holds 10 * batch_size.
flush_internal_end(t) ==
  /\ colPc[t] = "db"
  /\ \E stored \in BOOLEAN :
       event_buffer' =
         IF ~stored /\ event_buffer < batch_size * 10
           THEN colEvents[t] + event_buffer
           ELSE event_buffer
  /\ colEvents' = [colEvents EXCEPT ![t] = 0]
  /\ event_buffer_lock' = NoTask
  /\ colPc' = [colPc EXCEPT ![t] = "idle"]
  /\ UNCHANGED db_pool
  /\ UNCHANGED <<auditVars, sshVars, fwdVars>>

ColNext ==
  \/ collector_start
  \/ \E t \in ColTasks :
       \/ process_message_call(t)
       \/ process_message_append(t)
       \/ flush_internal_end(t)
  \/ flush_buffer_call
  \/ flush_buffer

ColSpec == AllIdle /\ [][ColNext]_vars


\* ------------------------------------------------------------- properties
Created(j) == jobs[j].status # ABSENT

\* C1: once the status of an AuditJob is COMPLETED, FAILED or CANCELLED, no
\* later step of any task, handler or cancel request changes it.
C1_TerminalIsFinal ==
  [][\A j \in Jobs :
       jobs[j].status \in Terminal => jobs'[j].status = jobs[j].status]_vars

\* C2: after a cancel request on a PENDING or RUNNING job has succeeded, the
\* rows of stig.audit_results of that job never change again.
C2_NoResultsAfterCancel ==
  [][\A j \in Jobs : everCancelled[j] => results'[j] = results[j]]_vars

\* C3: at every instant the rows visible for a job are none or the complete
\* list its task inserts, and each query of the summary reader (the status
\* counts, the severity breakdown) is computed from none or from all of them.
C3_NoneOrAllVisible ==
  /\ \A j \in Jobs : results[j] \in {<<>>, toWrite[j]}
  /\ rCounts \in {ZeroCounts, get_summary(toWrite[rJob])}
  /\ rBreak \in {ZeroBreakdown, get_severity_breakdown(toWrite[rJob])}

\* C3 witness: a summary read that started before the insert saw no row and
\* is still in flight now that the complete list of several rows is visible.
C3_Witness ==
  /\ rPc = "breakdown"
  /\ rCounts = ZeroCounts
  /\ Len(toWrite[rJob]) > 1
  /\ results[rJob] = toWrite[rJob]

\* C4: whenever database rules exist for the definition, every rule that
\* analyze_config evaluates is one of those database rules (no built-in and
\* no XCCDF rule is evaluated alongside), on every platform.
C4_DbRulesOnly ==
  evalIn.db_rules # <<>> =>
    \A i \in DOMAIN evalRules : evalRules[i].source = "db"

\* C5: every job created by start_audit eventually reaches COMPLETED, FAILED
\* or CANCELLED.
C5_EventuallyTerminal ==
  \A j \in Jobs : (kind[j] = "async") ~> (jobs[j].status \in Terminal)

\* C6 as stated: a job handed off while the message queue is unreachable is
\* run in-process.
C6_FallbackWhenUnavailable ==
  \A j \in Jobs :
    (kind[j] = "async" /\ pc[j] # "submit" /\ mqDown[j]) => inProcess[j]

\* C6 amended: a job handed off while the service holds no JetStream context
\* (the connect at startup failed) is run in-process by a task of the
\* service; its row is never left to a publish.
C6_FallbackWhenNotConnected ==
  \A j \in Jobs :
    (kind[j] = "async" /\ pc[j] # "submit" /\ ~js) =>
      /\ inProcess[j]
      /\ pc[j] \notin {"published", "submit_failed"}

\* C6 witness: without a JetStream context a job went through the in-process
\* task up to COMPLETED.
C6_Witness ==
  \E j \in Jobs :
    ~js /\ mqDown[j] /\ inProcess[j] /\ pc[j] = "done"
        /\ jobs[j].status = COMPLETED

\* C7: the step that handles a failed hand-off takes the job from PENDING to
\* FAILED and stores the hand-off error as error_message.
C7_HandoffFailure ==
  [][\A j \in Jobs :
       (pc[j] = "submit_failed" /\ pc'[j] = "done") =>
         /\ jobs[j].status = PENDING
         /\ jobs'[j].status = FAILED
         /\ jobs'[j].error_message = SubmitError]_vars

\* C8: a cancel request that completes on a job whose status is COMPLETED,
\* FAILED or CANCELLED leaves the row as it is and answers "not cancellable".
C8_CancelTerminalIsNoOp ==
  [][\A j \in Jobs :
       (cancelPc[j] = "read" /\ cancelPc'[j] = "idle"
          /\ jobs[j].status \in Terminal) =>
         /\ jobs'[j] = jobs[j]
         /\ cancelReply'[j] = "not_cancellable"]_vars

\* C9: completed_at is set exactly when the status is COMPLETED, FAILED or
\* CANCELLED.
C9_CompletedAtIffTerminal ==
  \A j \in Jobs :
    Created(j) => (jobs[j].completed_at <=> jobs[j].status \in Terminal)

\* C10: error_message is set exactly when the status is FAILED.
C10_ErrorMessageIffFailed ==
  \A j \in Jobs :
    Created(j) => (jobs[j].error_message # NULL <=> jobs[j].status = FAILED)

\* C10 witness: a job that failed while running carries the message of the
\* exception, and a cancel request on it has been answered.
C10_Witness ==
  \E j \in Jobs :
    /\ jobs[j].status = FAILED
    /\ jobs[j].error_message \in ExcMsgs
    /\ jobs[j].started_at
    /\ cancelReply[j] = "not_cancellable"

\* C11: a job whose run found at least one rule in its definition is
\* COMPLETED only with AuditResults of that job in stig.audit_results.
C11_ResultsBeforeCompleted ==
  \A j \in Jobs :
    (hasRules[j] /\ jobs[j].status = COMPLETED) => results[j] # <<>>

C15_UniqueRuleIds ==
  \A j \in Jobs :
    \A a, b \in DOMAIN results[j] :
      results[j][a].rule_id = results[j][b].rule_id => a = b

\* C16: an upload for a platform without a registered parser gets exactly
\* one result, CONFIG-PARSE-ERROR with status ERROR, from analyze_config,
\* that one row is what is persisted, and the job reaches COMPLETED, FAILED
\* or CANCELLED.
C16_NoParserOneError ==
  /\ [](\A j \in Jobs :
         (kind[j] = "upload" /\ ~get_parser(targetPlatform[j])
            /\ pc[j] \in {"write", "last_audit", "complete", "summary"}) =>
           /\ Len(toWrite[j]) = 1
           /\ toWrite[j][1].rule_id = "CONFIG-PARSE-ERROR"
           /\ toWrite[j][1].status = "error"
           /\ (pc[j] # "write" => results[j] = toWrite[j]))
  /\ \A j \in Jobs :
       (kind[j] = "upload" /\ ~get_parser(targetPlatform[j]))
         ~> (jobs[j].status \in Terminal)

\* C16 witness: an upload for a platform without a parser is COMPLETED with
\* the single CONFIG-PARSE-ERROR row persisted.
C16_Witness ==
  \E j \in Jobs :
    /\ kind[j] = "upload"
    /\ ~get_parser(targetPlatform[j])
    /\ jobs[j].status = COMPLETED
    /\ Len(results[j]) = 1
    /\ results[j][1].rule_id = "CONFIG-PARSE-ERROR"

\* C13: when the evaluation of one rule of a list raises, that rule gets an
\* ERROR result carrying the message in finding_details, and every rule of
\* the list is evaluated.
C13_ErrorDoesNotAbort ==
  /\ ruleOut.evaluated = Len(ruleIn.rules)
  /\ ruleIn.errAt \in DOMAIN ruleIn.rules =>
       /\ ruleIn.errAt \in DOMAIN ruleOut.results
       /\ ruleOut.results[ruleIn.errAt].status = "error"
       /\ ruleOut.results[ruleIn.errAt].finding_details = CheckErrorText

\* C14: an evaluation returns exactly as many results as it was given rules.
C14_OneResultPerRule ==
  /\ ~ruleOut.raised
  /\ Len(ruleOut.results) = Len(ruleIn.rules)

\* C17: a rule lookup made after the latest forced rescan returns exactly
\* the rules the rescanned library holds for that benchmark id, never what
\* was cached before the rescan.
C17_LookupAfterRescanIsFresh ==
  lookupOut.benchmark_id # NULL =>
    lookupOut.rules = library.rules[lookupOut.benchmark_id]

\* The last parser call made an XML parse call / made the limit check e
\* before its parse call / was given input over one of the three limits /
\* was given input that is no XCCDF benchmark.
Parsed == \E i \in DOMAIN xOut.log : xOut.log[i] = "parse"
CheckedBeforeParse(e) ==
  \E i, k \in DOMAIN xOut.log :
    xOut.log[i] = e /\ xOut.log[k] = "parse" /\ i < k
Oversized ==
  \/ xIn.entry_point = "zip" /\ xIn.valid /\ xIn.entries > max_zip_entries
  \/ xIn.entry_point = "zip" /\ xIn.valid /\ xIn.has_xccdf
       /\ xIn.file_size > max_zip_entry_size
  \/ xIn.entry_point \in {"xml", "bytes"} /\ xIn.doc.size > max_xml_size
  \/ xIn.entry_point = "zip" /\ xIn.valid /\ xIn.has_xccdf
       /\ xIn.doc.size > max_xml_size
Malformed ==
  \/ xIn.entry_point = "zip" /\ (~xIn.valid \/ ~xIn.has_xccdf)
  \/ xIn.entry_point # "none" /\ xIn.doc.xml = "malformed"
  \/ xIn.entry_point # "none" /\ xIn.doc.xml = "wellformed"
       /\ xIn.doc.benchmark_id = ""

\* C18: an XML parse call is made only after the size check of the raw XML
\* and, for an archive, after the entry count check and the entry size
\* check; input over any of the limits gets no XML parse call.
C18_ChecksBeforeParse ==
  /\ Parsed =>
       /\ CheckedBeforeParse("xml_size")
       /\ xIn.entry_point = "zip" =>
            CheckedBeforeParse("entry_count") /\ CheckedBeforeParse("entry_size")
  /\ Oversized => ~Parsed

\* C18 witness: an archive exactly at the entry count limit whose XCCDF
\* entry is exactly at the entry size limit and holds XML exactly at the XML
\* size limit was parsed and gave rules.
C18_Witness ==
  /\ xIn.entry_point = "zip"
  /\ xIn.entries = max_zip_entries
  /\ xIn.file_size = max_zip_entry_size
  /\ xIn.doc.size = max_xml_size
  /\ Parsed
  /\ xOut.rules # <<>>

C20_NoEmptyRuleId ==
  \A i \in DOMAIN xOut.rules : xOut.rules[i].rule_id # ""

\* C21: when start_audit_all has answered 201, the group has exactly one
\* member job for each enabled assignment it listed.
C21_OneJobPerAssignment ==
  gPc = "done" => Cardinality(Members) = Len(gFrozen)

\* C25: a request to start an audit for a target that does not exist or
\* is not active, or for a definition that does not exist, is answered
\* with an error and creates no job.
C25_InvalidStartCreatesNoJob ==
  /\ startOut.via \in {"start_audit", "analyze_target_config"}
  /\ \/ ~target.exists
     \/ ~target.is_active
     \/ startOut.definition \notin definitions
  => /\ startOut.error # NULL
     /\ startOut.created = 0

C24_ScoreOverApplicable ==
  LET passed == scoreIn.counts["pass"]
      applicable == scoreIn.counts["pass"] + scoreIn.counts["fail"]
      off == scoreOut.compliance_score * applicable - 10000 * passed
  IN scoreIn.op # "none" =>
       /\ applicable = 0 => scoreOut.compliance_score = 0
       /\ applicable > 0 => 2 * off <= applicable /\ -2 * off <= applicable

\* C24 witness: one passed and two failed checks next to checks that are
\* not applicable, not reviewed and in error give 33.33.
C24_Witness ==
  /\ scoreIn.op = "job"
  /\ scoreIn.counts = [st \in CheckStatus |->
                         IF st = "pass" THEN 1 ELSE IF st = "fail" THEN 2 ELSE 1]
  /\ scoreOut.compliance_score = 3333

\* The domain keywords in their fixed order, and whether the rule of the
\* last heuristic evaluation matches one: its check text holds the keyword
\* or its title holds the word that stands for it.
KeywordOrder == <<"ssh", "ntp", "syslog", "snmp", "aaa", "banner">>
KeywordMatched(k) ==
  CASE k = "ssh" -> sniffIn.text \cap {"ssh", "sshd"} # {} \/ "ssh" \in sniffIn.title
    [] k = "ntp" -> "ntp" \in sniffIn.text \/ "time" \in sniffIn.title
    [] k = "syslog" -> "syslog" \in sniffIn.text \/ "log" \in sniffIn.title
    [] k = "aaa" -> "aaa" \in sniffIn.text \/ "authentication" \in sniffIn.title
    [] OTHER -> k \in sniffIn.text

\* C26: the check applied to a rule without a typed descriptor, from the
\* database or from XCCDF, is the one of the first keyword in the order
\* ssh, ntp, syslog, snmp, aaa/authentication, banner that the rule holds,
\* and the generic pattern search when it holds none (a rule without any
\* pattern to search for may go without the search: the outcome is the same).
C26_FirstKeywordWins ==
  sniffIn.source # "none" =>
    IF \E i \in DOMAIN KeywordOrder : KeywordMatched(KeywordOrder[i])
      THEN \E i \in DOMAIN KeywordOrder :
             /\ KeywordMatched(KeywordOrder[i])
             /\ \A k \in 1..(i - 1) : ~KeywordMatched(KeywordOrder[k])
             /\ sniffOut = KeywordOrder[i]
      ELSE \/ sniffOut = "generic"
           \/ sniffOut = "manual" /\ "quoted" \notin sniffIn.text

\* current_path before line i of the last configuration parsed.
PathBefore(i) == IF i = 1 THEN <<>> ELSE junosOut.paths[i - 1]

\* C27: parse() does not raise and reads every line; a closing brace met
\* with no section open leaves the path empty, and a configuration that
\* starts with such a brace is parsed like the same configuration without it.
C27_StrayBraceIsNoOp ==
  /\ ~junosOut.raised
  /\ Len(junosOut.paths) = Len(junosIn)
  /\ \A i \in DOMAIN junosIn :
       (junosIn[i] = "}" /\ PathBefore(i) = <<>>) => junosOut.paths[i] = <<>>
  /\ (junosIn # <<>> /\ Head(junosIn) = "}") =>
       LET rest == junos_parse(Tail(junosIn))
       IN /\ junosOut.hostname = rest.hostname
          /\ junosOut.ntp_servers = rest.ntp_servers
          /\ junosOut.current_path = rest.current_path

\* C27 witness: a configuration that starts with a closing brace, then
\* opens the ntp section and names a server, gave that server.
C27_Witness ==
  /\ junosIn = <<"}", "ntp {", "server 10.0.0.1;">>
  /\ ~junosOut.raised
  /\ junosOut.ntp_servers = <<"10.0.0.1">>

\* C28: a pending SSH connect never waits longer than the timeout; a check
\* whose connect timed out or was refused has status ERROR; and every
\* audit_target call that has started returns with one result per rule.
C28_ConnectBoundedAndReported ==
  /\ [](sshPc = "wait" => sshClock <= default_ssh_timeout)
  /\ [](\A i \in 1..Len(sshResults) :
          sshResults[i].cause \in {"timeout", "refused"}
            => sshResults[i].status = "error")
  /\ (sshPc \in {"rule", "connect", "wait", "run"})
       ~> (sshPc = "done" /\ Len(sshResults) = Len(sshRules))

C28_Witness ==
  /\ sshPc = "done"
  /\ Len(sshResults) = 2
  /\ sshResults[1] = [status |-> "error", cause |-> "timeout"]
  /\ sshResults[2] = [status |-> "error", cause |-> "refused"]

\* C29: every forward() call that has started returns, and does not hold
\* buffer_lock once it has.
C29_ForwardReturns ==
  \A t \in FwdCallers :
    (fwdPc[t] # "idle") ~> (fwdPc[t] = "idle" /\ buffer_lock # t)

\* C30: the collector's event buffer never holds more than
\* SYSLOG_MAX_BUFFER_SIZE events.
C30_BufferBounded == event_buffer <= SYSLOG_MAX_BUFFER_SIZE

\* The buffer is full although the pool is set and batch_size is below the
\* limit, which takes a failed flush that put its events back; a
\* process_message call that passed the first test waits for the lock.
C30_Witness ==
  /\ db_pool
  /\ batch_size < SYSLOG_MAX_BUFFER_SIZE
  /\ event_buffer = SYSLOG_MAX_BUFFER_SIZE
  /\ event_buffer_lock = NoTask
  /\ \E t \in Receivers : colPc[t] = "lock"

====
